---- MODULE Spec2Model ----
(***************************************************************************)
(* A model of geohack: the coordinate parser (src/src/geo_param.rs), the   *)
(* derived map values (misc_map_source_values.rs), the degrees, minutes    *)
(* and seconds (min_sec_result.rs), the projections (traverse_mercator.rs),*)
(* the coordinate group (coordinate_group.rs), the page of map sources     *)
(* (map_sources.rs) and the template cache (templates.rs).  Each component *)
(* has its own specification over the shared variables: Spec, SpecMisc,    *)
(* SpecMinSec, SpecZone, SpecTM, SpecGroup, SpecPage and SpecTemplates.    *)
(*                                                                         *)
(* Strings are TLA+ strings; a character is a string of length 1.          *)
(* An f64 is modelled in sign-magnitude form, as IEEE-754 stores it:       *)
(*   [kind |-> "num" | "nan" | "inf", neg |-> sign bit, mag |-> magnitude] *)
(* where the magnitude of a finite value is an exact multiple of           *)
(* 1/Unit.  Unit = 720000 makes every value the parser can produce from a  *)
(* token with at most two fraction digits exact: a hundredth of a second   *)
(* of arc is 2/Unit degrees, and the midpoint of two such values is again  *)
(* a multiple of 1/Unit.  Exponent notation is outside the modelled token  *)
(* alphabet.                                                               *)
(***************************************************************************)
EXTENDS Integers, Sequences, FiniteSets, TLC

\* ------------------------------------------------------------------------
\* Bounds of the model
\* ------------------------------------------------------------------------
\* longest run of attribute tokens after the coordinate
MaxTail == 2
\* longest free token sequence tried against the layout recognition
MaxFree == 6
\* number of get_attr calls made on one GeoParam
MaxCalls == 2
\* number of MiscMapSourceValues alive together
MaxMade == 2

\* ------------------------------------------------------------------------
\* Characters and strings
\* ------------------------------------------------------------------------
Digits == "0123456789"
LowerCase == "abcdefghijklmnopqrstuvwxyz"
UpperCase == "ABCDEFGHIJKLMNOPQRSTUVWXYZ"

\* str::find(char): 1-based index of the first occurrence, 0 when absent
RECURSIVE FindFrom(_, _, _)
FindFrom(s, c, i) ==
    IF i > Len(s) THEN 0
    ELSE IF SubSeq(s, i, i) = c THEN i
    ELSE FindFrom(s, c, i + 1)

Find(s, c) == FindFrom(s, c, 1)

\* the text after position i (1-based), the text before position i
After(s, i) == SubSeq(s, i + 1, Len(s))
Before(s, i) == SubSeq(s, 1, i - 1)

\* str::replace(from, to) for single characters
RECURSIVE Replace(_, _, _)
Replace(s, from, to) ==
    IF s = "" THEN ""
    ELSE (IF Head(s) = from THEN to ELSE Head(s)) \o Replace(Tail(s), from, to)

\* str::split_whitespace: the non-empty runs between blanks, in order
RECURSIVE SplitFrom(_, _, _)
SplitFrom(s, i, cur) ==
    IF i > Len(s) THEN (IF cur = "" THEN <<>> ELSE <<cur>>)
    ELSE IF SubSeq(s, i, i) = " "
         THEN (IF cur = "" THEN <<>> ELSE <<cur>>) \o SplitFrom(s, i + 1, "")
         ELSE SplitFrom(s, i + 1, cur \o SubSeq(s, i, i))

split_whitespace(s) == SplitFrom(s, 1, "")

\* the capital at position i of the alphabet, c itself when i = 0
UpperAt(c, i) == IF i > 0 THEN SubSeq(UpperCase, i, i) ELSE c

UpperChar(c) == UpperAt(c, Find(LowerCase, c))

\* str::to_uppercase / to_ascii_uppercase on the ASCII alphabet
RECURSIVE to_uppercase(_)
to_uppercase(s) ==
    IF s = "" THEN "" ELSE UpperChar(Head(s)) \o to_uppercase(Tail(s))

eq_ignore_ascii_case(a, b) == to_uppercase(a) = to_uppercase(b)

IsDigit(c) == Find(Digits, c) > 0
DigitVal(c) == Find(Digits, c) - 1

RECURSIVE AllDigits(_)
AllDigits(s) == s = "" \/ (IsDigit(Head(s)) /\ AllDigits(Tail(s)))

\* ------------------------------------------------------------------------
\* i32: str::parse::<i32>() and i32::to_string()
\* ------------------------------------------------------------------------
I32Max == 2147483647

\* value of a digit string, or -1 when it exceeds lim (lim <= I32Max)
RECURSIVE DigitsValue(_, _, _)
DigitsValue(s, acc, lim) ==
    IF s = "" THEN acc
    ELSE IF acc > (lim - DigitVal(Head(s))) \div 10 THEN -1
    ELSE DigitsValue(Tail(s), acc * 10 + DigitVal(Head(s)), lim)

\* a number may start with one sign
Signed(s) == s # "" /\ Head(s) \in {"+", "-"}
Negative(s) == s # "" /\ Head(s) = "-"
Unsigned(s) == IF Signed(s) THEN Tail(s) ELSE s

\* the i32 of the digits body with magnitude v (-1: beyond I32Max)
I32Value(body, neg, v) ==
    IF v >= 0 THEN [ok |-> TRUE, val |-> IF neg THEN 0 - v ELSE v]
    \* the one magnitude that fits only with a minus sign: i32::MIN
    ELSE IF neg /\ body = "2147483648"
         THEN [ok |-> TRUE, val |-> (0 - I32Max) - 1]
    ELSE [ok |-> FALSE, val |-> 0]

I32Digits(body, neg) ==
    IF body = "" \/ ~AllDigits(body) THEN [ok |-> FALSE, val |-> 0]
    ELSE I32Value(body, neg, DigitsValue(body, 0, I32Max))

\* Result<i32>: an optional sign, then one or more digits, within the width
parse_i32(s) == I32Digits(Unsigned(s), Negative(s))

RECURSIVE NatToString(_)
NatToString(n) ==
    IF n < 10 THEN SubSeq(Digits, n + 1, n + 1)
    ELSE NatToString(n \div 10) \o SubSeq(Digits, (n % 10) + 1, (n % 10) + 1)

\* ------------------------------------------------------------------------
\* f64
\* ------------------------------------------------------------------------
\* magnitudes are counted in 1/Unit: a hundredth is 7200/Unit
Unit == 7200 * 100
Hundredth == Unit \div 100

Num(neg, mag) == [kind |-> "num", neg |-> neg, mag |-> mag]
NaN == [kind |-> "nan", neg |-> FALSE, mag |-> 0]
Inf(neg) == [kind |-> "inf", neg |-> neg, mag |-> 0]
\* 0.0, the value of f64::default() and of unwrap_or(0.0)
Zero == Num(FALSE, 0)
\* an integer number of degrees, minutes or seconds as an f64
F(n) == Num(n < 0, (IF n < 0 THEN 0 - n ELSE n) * Unit)

\* the signed number of 1/Unit a finite value stands for
Val(x) == IF x.neg THEN 0 - x.mag ELSE x.mag

\* a <= b and a < b of IEEE-754: false when either side is NaN, -0.0 = 0.0
Le(a, b) ==
    IF a.kind = "nan" \/ b.kind = "nan" THEN FALSE
    ELSE IF a.kind = "inf" THEN a.neg \/ (b.kind = "inf" /\ ~b.neg)
    ELSE IF b.kind = "inf" THEN ~b.neg
    ELSE Val(a) <= Val(b)

Lt(a, b) ==
    IF a.kind = "nan" \/ b.kind = "nan" THEN FALSE
    ELSE IF a.kind = "inf" THEN a.neg /\ ~(b.kind = "inf" /\ b.neg)
    ELSE IF b.kind = "inf" THEN ~b.neg
    ELSE Val(a) < Val(b)

\* a + b on finite values; a zero sum is -0.0 only when both operands are
\* negative zeros or negative
Add(a, b) ==
    IF a.kind # "num" \/ b.kind # "num"
    THEN (IF a.kind = "nan" \/ b.kind = "nan" THEN NaN
          ELSE IF a.kind = "inf" /\ b.kind = "inf" /\ a.neg # b.neg THEN NaN
          ELSE IF a.kind = "inf" THEN a ELSE b)
    ELSE LET v == Val(a) + Val(b)
         IN  IF v = 0 THEN Num(a.neg /\ b.neg, 0)
             ELSE Num(v < 0, IF v < 0 THEN 0 - v ELSE v)

\* x / d for d in {2.0, 60.0}; exact on the values the parser divides
Div(x, d) == IF x.kind = "num" THEN Num(x.neg, x.mag \div d) ELSE x

\* x * factor for factor in {1.0, -1.0}
MulSign(x, negative) == IF negative THEN [x EXCEPT !.neg = ~x.neg] ELSE x

\* f64::copysign: the magnitude of x with the sign bit of y
copysign(x, y) == [x EXCEPT !.neg = y.neg]

\* the hundredths a string of one or two fraction digits stands for
FracHundredths(fp) ==
    IF fp = "" THEN 0
    ELSE IF Len(fp) = 1 THEN 10 * DigitVal(fp)
    ELSE DigitsValue(fp, 0, 99)

\* the f64 with integer part iv (-1: beyond the model) and fv hundredths
DecimalValue(iv, fv, neg) ==
    IF iv < 0 THEN [ok |-> FALSE, val |-> Zero]
    ELSE [ok |-> TRUE, val |-> Num(neg, iv * Unit + fv * Hundredth)]

\* digits '.' digits, with at least one digit
DecimalParts(ip, fp, neg) ==
    IF ip \o fp = "" \/ ~AllDigits(ip) \/ ~AllDigits(fp) \/ Len(fp) > 2
    THEN [ok |-> FALSE, val |-> Zero]
    ELSE DecimalValue(DigitsValue(ip, 0, 2000), FracHundredths(fp), neg)

\* body with its first '.' at position dot (0: none)
Decimal(body, neg, dot) ==
    DecimalParts(IF dot = 0 THEN body ELSE Before(body, dot),
                 IF dot = 0 THEN "" ELSE After(body, dot), neg)

\* body, whose capitals are upper, after the sign
F64Body(body, upper, neg) ==
    IF upper = "NAN" THEN [ok |-> TRUE, val |-> NaN]
    ELSE IF upper \in {"INF", "INFINITY"} THEN [ok |-> TRUE, val |-> Inf(neg)]
    ELSE Decimal(body, neg, Find(body, "."))

F64Unsigned(body, neg) == F64Body(body, to_uppercase(body), neg)

\* str::parse::<f64>() on tokens without exponent: an optional sign, then
\* "nan", "inf", "infinity" (any case) or digits with at most one '.' and
\* at least one digit.  ok = FALSE stands for Err.  The model represents
\* integer parts up to 2000 and two fraction digits; no token of the input
\* alphabet below goes beyond that.
parse_f64(s) == F64Unsigned(Unsigned(s), Negative(s))

\* the fraction digits of h hundredths without trailing zeros
FracString(h) ==
    IF h = 0 THEN ""
    ELSE IF h % 10 = 0 THEN "." \o NatToString(h \div 10)
    ELSE "." \o NatToString(h \div 10) \o NatToString(h % 10)

\* f64::to_string() (Display) of a value that is a whole number of
\* hundredths, as every freshly parsed token is
f64_to_string(x) ==
    IF x.kind = "nan" THEN "NaN"
    ELSE IF x.kind = "inf" THEN (IF x.neg THEN "-inf" ELSE "inf")
    ELSE (IF x.neg THEN "-" ELSE "")
         \o NatToString(x.mag \div Unit)
         \o FracString((x.mag % Unit) \div Hundredth)

\* ------------------------------------------------------------------------
\* GeoParam
\* ------------------------------------------------------------------------
\* struct GeoParam, and the value of GeoParam::default()
GeoParam(pieces) ==
    [latdeg |-> Zero, londeg |-> Zero,
     latdeg_min |-> Zero, londeg_min |-> Zero,
     latdeg_max |-> Zero, londeg_max |-> Zero,
     pieces |-> pieces, coor |-> <<>>]

\* mutant of MapToken: every O of a token becomes E, also inside key:value
MapToken_EveryO(s) == IF s = "o" THEN "E" ELSE Replace(s, "O", "E")

\* the closure mapped over the tokens: a standalone O (German "Ost") is E
MapToken(s) == IF s = "O" \/ s = "o" THEN "E" ELSE s

\* the token list GeoParam::new builds from the raw parameter
Preprocess(param) ==
    LET toks == split_whitespace(Replace(param, "_", " "))
    IN  [i \in 1..Len(toks) |-> MapToken(toks[i])]

\* the value parse_piece returns for the piece it removes
UnwrapOrZero(r) == IF r.ok THEN r.val ELSE Zero
\* mutant of PieceValue: a piece that is no number is NaN
PieceValue_NaN(s) == IF parse_f64(s).ok THEN parse_f64(s).val ELSE NaN
PieceValue(s) == UnwrapOrZero(parse_f64(s))

is_coor(ns, ew) ==
    /\ (to_uppercase(ns) = "N" \/ to_uppercase(ns) = "S")
    /\ (to_uppercase(ew) = "E" \/ to_uppercase(ew) = "W")

\* pieces with the first n removed
Drop(p, n) == SubSeq(p, n + 1, Len(p))

\* Ok((lat_ns, lon_ew, latmin, lonmin, latsec, lonsec)) and the updated self
Parsed(g, n, latdeg, londeg, coor, lat_ns, lon_ew, latmin, lonmin, latsec, lonsec) ==
    [ok |-> TRUE,
     geo |-> [g EXCEPT !.latdeg = latdeg, !.londeg = londeg,
                       !.pieces = Drop(g.pieces, n), !.coor = coor],
     lat_ns |-> lat_ns, lon_ew |-> lon_ew,
     latmin |-> latmin, lonmin |-> lonmin,
     latsec |-> latsec, lonsec |-> lonsec]

\* the semicolon layout "lat;lon"
SemicolonParsed(g, lat, lon) ==
    Parsed(g, 1, lat, lon, <<f64_to_string(lat), f64_to_string(lon)>>,
           "N", "E", Zero, Zero, Zero, Zero)

SemicolonAt(g, piece, i) ==
    SemicolonParsed(g, PieceValue(Before(piece, i)), PieceValue(After(piece, i)))

ParseSemicolon(g) == SemicolonAt(g, g.pieces[1], Find(g.pieces[1], ";"))

\* "deg NS deg EW"
DegreesParsed(g, p, lat, lon) ==
    Parsed(g, 4, lat, lon,
           <<f64_to_string(lat), p[2], f64_to_string(lon), p[4]>>,
           p[2], p[4], Zero, Zero, Zero, Zero)

ParseDegrees(g) ==
    DegreesParsed(g, g.pieces, PieceValue(g.pieces[1]), PieceValue(g.pieces[3]))

\* "deg min NS deg min EW"
MinutesParsed(g, p, lat, latmin, lon, lonmin) ==
    Parsed(g, 6, lat, lon,
           <<f64_to_string(lat), f64_to_string(latmin), p[3],
             f64_to_string(lon), f64_to_string(lonmin), p[6]>>,
           p[3], p[6], latmin, lonmin, Zero, Zero)

ParseMinutes(g) ==
    MinutesParsed(g, g.pieces, PieceValue(g.pieces[1]), PieceValue(g.pieces[2]),
                  PieceValue(g.pieces[4]), PieceValue(g.pieces[5]))

\* "deg min sec NS deg min sec EW"
SecondsParsed(g, p, lat, latmin, latsec, lon, lonmin, lonsec) ==
    Parsed(g, 8, lat, lon,
           <<f64_to_string(lat), f64_to_string(latmin), f64_to_string(latsec), p[4],
             f64_to_string(lon), f64_to_string(lonmin), f64_to_string(lonsec), p[8]>>,
           p[4], p[8], latmin, lonmin, latsec, lonsec)

ParseSeconds(g) ==
    SecondsParsed(g, g.pieces,
                  PieceValue(g.pieces[1]), PieceValue(g.pieces[2]), PieceValue(g.pieces[3]),
                  PieceValue(g.pieces[5]), PieceValue(g.pieces[6]), PieceValue(g.pieces[7]))

\* mutant of parse_coordinate_format: the minutes layout is tried before the
\* degrees layout
parse_coordinate_format_MinutesFirst(g) ==
    LET p == g.pieces
    IN  IF Find(p[1], ";") > 0 THEN ParseSemicolon(g)
        ELSE IF Len(p) >= 6 /\ is_coor(p[3], p[6]) THEN ParseMinutes(g)
        ELSE IF Len(p) >= 4 /\ is_coor(p[2], p[4]) THEN ParseDegrees(g)
        ELSE IF Len(p) >= 8 /\ is_coor(p[4], p[8]) THEN ParseSeconds(g)
        ELSE [ok |-> FALSE, geo |-> g]

\* ok = FALSE stands for Err("Unrecognized format")
parse_coordinate_format(g) ==
    LET p == g.pieces
    IN  IF Find(p[1], ";") > 0 THEN ParseSemicolon(g)
        ELSE IF Len(p) >= 4 /\ is_coor(p[2], p[4]) THEN ParseDegrees(g)
        ELSE IF Len(p) >= 6 /\ is_coor(p[3], p[6]) THEN ParseMinutes(g)
        ELSE IF Len(p) >= 8 /\ is_coor(p[4], p[8]) THEN ParseSeconds(g)
        ELSE [ok |-> FALSE, geo |-> g]

valid_degree_range(deg, max) == Le(F(0 - max), deg) /\ Le(deg, F(max))
valid_minsec_range(val) == Le(Zero, val) /\ Le(val, F(60))

\* TRUE stands for Ok(()), FALSE for Err("Out of range")
validate_ranges(g, latmin, lonmin, latsec, lonsec) ==
    ~ \/ ~valid_degree_range(g.latdeg, 90)
      \/ ~valid_degree_range(g.londeg, 360)
      \/ ~valid_minsec_range(latmin)
      \/ ~valid_minsec_range(lonmin)
      \/ ~valid_minsec_range(latsec)
      \/ ~valid_minsec_range(lonsec)

\* TRUE when the factor is -1.0
direction_factor(dir, neg_dir) == eq_ignore_ascii_case(dir, neg_dir)

\* mutant of ToDecimal: the minutes are added without the sign of the degrees
ToDecimal_NoCopysign(deg, min, sec, negative) ==
    LET min_total == Add(min, Div(sec, 60))
    IN  MulSign(Add(deg, Div(min_total, 60)), negative)

\* deg + (min + sec / 60).copysign(deg) / 60, times the direction factor
ToDecimal(deg, min, sec, negative) ==
    LET min_total == Add(min, Div(sec, 60))
    IN  MulSign(Add(deg, Div(copysign(min_total, deg), 60)), negative)

convert_to_decimal_degrees(g, lat_ns, lon_ew, latmin, lonmin, latsec, lonsec) ==
    [g EXCEPT
       !.latdeg = ToDecimal(g.latdeg, latmin, latsec, direction_factor(lat_ns, "S")),
       !.londeg = ToDecimal(g.londeg, lonmin, lonsec, direction_factor(lon_ew, "W"))]

\* get_coor once parse_coordinate_format has returned r
Validated(r) ==
    IF ~r.ok THEN [err |-> "Unrecognized format", geo |-> r.geo]
    ELSE IF ~validate_ranges(r.geo, r.latmin, r.lonmin, r.latsec, r.lonsec)
         THEN [err |-> "Out of range", geo |-> r.geo]
    ELSE [err |-> "",
          geo |-> convert_to_decimal_degrees(r.geo, r.lat_ns, r.lon_ew,
                     r.latmin, r.lonmin, r.latsec, r.lonsec)]

\* err = "" stands for Ok(())
get_coor(g) ==
    IF g.pieces = <<>> THEN [err |-> "No coordinates provided", geo |-> g]
    ELSE Validated(parse_coordinate_format(g))

init_min_max(g) ==
    [g EXCEPT !.latdeg_min = g.latdeg, !.latdeg_max = g.latdeg,
              !.londeg_min = g.londeg, !.londeg_max = g.londeg]

\* mutant of update_range_bounds: the longitude branch tests the latitude
update_range_bounds_LatForLon(g) ==
    LET lat_min == IF Lt(g.latdeg, g.latdeg_max) THEN g.latdeg ELSE g.latdeg_min
        lat_max == IF Lt(g.latdeg, g.latdeg_max) THEN g.latdeg_max ELSE g.latdeg
        lon_min == IF Lt(g.latdeg, g.latdeg_max) THEN g.londeg ELSE g.londeg_min
        lon_max == IF Lt(g.latdeg, g.latdeg_max) THEN g.londeg_max ELSE g.londeg
    IN  [g EXCEPT !.latdeg_min = lat_min, !.latdeg_max = lat_max,
                  !.londeg_min = lon_min, !.londeg_max = lon_max,
                  !.latdeg = Div(Add(lat_max, lat_min), 2),
                  !.londeg = Div(Add(lon_max, lon_min), 2),
                  !.coor = <<>>]

update_range_bounds(g) ==
    LET lat_min == IF Lt(g.latdeg, g.latdeg_max) THEN g.latdeg ELSE g.latdeg_min
        lat_max == IF Lt(g.latdeg, g.latdeg_max) THEN g.latdeg_max ELSE g.latdeg
        lon_min == IF Lt(g.londeg, g.londeg_max) THEN g.londeg ELSE g.londeg_min
        lon_max == IF Lt(g.londeg, g.londeg_max) THEN g.londeg_max ELSE g.londeg
    IN  [g EXCEPT !.latdeg_min = lat_min, !.latdeg_max = lat_max,
                  !.londeg_min = lon_min, !.londeg_max = lon_max,
                  !.latdeg = Div(Add(lat_max, lat_min), 2),
                  !.londeg = Div(Add(lon_max, lon_min), 2),
                  !.coor = <<>>]

\* GeoParam::new once the coordinate after "to" is read
RangeResult(second) ==
    IF second.err # "" THEN second
    ELSE [err |-> "", geo |-> update_range_bounds(second.geo)]

\* the second half of GeoParam::new: the coordinate after "to"
ParseRange(g) == RangeResult(get_coor([g EXCEPT !.pieces = Tail(g.pieces)]))

\* GeoParam::new after init_min_max
AfterMinMax(g) ==
    IF g.pieces # <<>> /\ g.pieces[1] = "to" THEN ParseRange(g)
    ELSE [err |-> "", geo |-> g]

\* GeoParam::new once the first coordinate is read
AfterFirstCoor(first) ==
    IF first.err # "" THEN first ELSE AfterMinMax(init_min_max(first.geo))

\* Result<GeoParam> of GeoParam::new(param); err = "" stands for Ok(geo)
GeoParam_new(param) == AfterFirstCoor(get_coor(GeoParam(Preprocess(param))))

\* ------------------------------------------------------------------------
\* GeoParam::get_attr
\* ------------------------------------------------------------------------
EmptyMap == [k \in {} |-> ""]

\* mutant of Insert: an old value under the same key is kept
Insert_KeepOld(m, k, v) == [x \in DOMAIN m \cup {k} |-> IF x \in DOMAIN m THEN m[x] ELSE v]

\* HashMap::insert: the new value replaces an old one under the same key
Insert(m, k, v) == [x \in DOMAIN m \cup {k} |-> IF x = k THEN v ELSE m[x]]

\* mutant of InsertWithArg: the value keeps its parenthesised argument
InsertWithArg_NoTruncate(attributes, attr, val, j, k) ==
    IF j > 0 /\ k > 0 /\ k > j
    THEN Insert(Insert(attributes, "arg:" \o attr, SubSeq(val, j + 1, k - 1)),
                attr, val)
    ELSE Insert(attributes, attr, val)

\* the entries of attr and val, whose first '(' and ')' are at j and k
InsertWithArg(attributes, attr, val, j, k) ==
    IF j > 0 /\ k > 0 /\ k > j
    THEN Insert(Insert(attributes, "arg:" \o attr, SubSeq(val, j + 1, k - 1)),
                attr, Before(val, j))
    ELSE Insert(attributes, attr, val)

InsertNameValue(attributes, attr, val) ==
    InsertWithArg(attributes, attr, val, Find(val, "("), Find(val, ")"))

\* the entries a key:value token s, with its ':' at position i, adds
InsertKeyValue(attributes, s, i) ==
    InsertNameValue(attributes, Before(s, i), After(s, i))

\* mutant of InsertScale: a bare number replaces the scale already set
InsertScale_NoGuard(attributes, num) ==
    IF num.ok /\ num.val > 0
    THEN Insert(attributes, "scale", NatToString(num.val))
    ELSE attributes

\* a bare number is the scale if none is set yet
InsertScale(attributes, num) ==
    IF num.ok /\ num.val > 0 /\ "scale" \notin DOMAIN attributes
    THEN Insert(attributes, "scale", NatToString(num.val))
    ELSE attributes

InsertBareNumber(attributes, s) == InsertScale(attributes, parse_i32(s))

\* the body of the while loop for the popped token s, its ':' at position i
AttrStepAt(attributes, s, i) ==
    IF i >= 2 THEN InsertKeyValue(attributes, s, i)
    ELSE InsertBareNumber(attributes, s)

AttrStep(attributes, s) == AttrStepAt(attributes, s, Find(s, ":"))

\* mutant of AttrLoop: the tokens are read from the end without being removed
RECURSIVE AttrFold(_, _, _)
AttrFold(pieces, attributes, i) ==
    IF i = 0 THEN attributes
    ELSE AttrFold(pieces, AttrStep(attributes, pieces[i]), i - 1)

AttrLoop_Keep(pieces, attributes) ==
    [pieces |-> pieces, attributes |-> AttrFold(pieces, attributes, Len(pieces))]

\* while let Some(s) = self.pieces.pop(): what is left of pieces and the
\* map when the loop ends
RECURSIVE AttrLoop(_, _)
AttrLoop(pieces, attributes) ==
    IF pieces = <<>> THEN [pieces |-> pieces, attributes |-> attributes]
    ELSE AttrLoop(SubSeq(pieces, 1, Len(pieces) - 1),
                  AttrStep(attributes, pieces[Len(pieces)]))

\* ------------------------------------------------------------------------
\* make_minsec / MinSecResult: degrees, minutes and seconds for display
\* ------------------------------------------------------------------------
\* a rounded field: a count of steps (1e-6 degree, 1e-4 minute or 1e-2
\* second)
Steps(neg, n) == [kind |-> "num", neg |-> neg, n |-> n]
StepsNaN == [kind |-> "nan", neg |-> FALSE, n |-> 0]
StepsInf(neg) == [kind |-> "inf", neg |-> neg, n |-> 0]

\* f64::round of num / den, halves away from zero
RoundDiv(num, den) == (2 * num + den) \div (2 * den)

\* (deg * 1_000_000.0).round() / 1_000_000.0 in millionths: the whole
\* degrees and the rest are rounded apart to stay within the integers
DegRounded(deg) ==
    IF deg.kind = "nan" THEN StepsNaN
    ELSE IF deg.kind = "inf" THEN StepsInf(deg.neg)
    ELSE Steps(deg.neg, (deg.mag \div Unit) * 1000000
                        + RoundDiv((deg.mag % Unit) * 25, 18))

\* mutant of MinRounded: the minutes are cut, not rounded
MinRounded_Cut(deg_rounded) ==
    IF deg_rounded.kind # "num" THEN StepsNaN
    ELSE Steps(FALSE, (60 * (deg_rounded.n % 1000000)) \div 100)

\* 60.0 * (deg_rounded.abs() - deg_rounded.abs().floor()), rounded to
\* 1e-4; inf - inf is NaN
MinRounded(deg_rounded) ==
    IF deg_rounded.kind # "num" THEN StepsNaN
    ELSE Steps(FALSE, RoundDiv(60 * (deg_rounded.n % 1000000), 100))

\* mutant of SecRounded: the seconds are rounded to 1e-1
SecRounded_Tenths(min_rounded) ==
    IF min_rounded.kind # "num" THEN StepsNaN
    ELSE Steps(FALSE, 10 * RoundDiv(60 * (min_rounded.n % 10000), 1000))

\* 60.0 * (min_rounded - min_rounded.floor()), rounded to 1e-2
SecRounded(min_rounded) ==
    IF min_rounded.kind # "num" THEN StepsNaN
    ELSE Steps(FALSE, RoundDiv(60 * (min_rounded.n % 10000), 100))

\* deg >= 0.0
NotBelowZero(deg) ==
    IF deg.kind = "nan" THEN FALSE
    ELSE IF deg.kind = "inf" THEN ~deg.neg
    ELSE ~deg.neg \/ deg.mag = 0

MinSecFields(deg_rounded, min_rounded, north_east) ==
    [deg |-> deg_rounded, min |-> min_rounded, sec |-> SecRounded(min_rounded),
     ns |-> IF north_east THEN "N" ELSE "S",
     ew |-> IF north_east THEN "E" ELSE "W"]

MinSecOf(deg_rounded, north_east) ==
    MinSecFields(deg_rounded, MinRounded(deg_rounded), north_east)

\* GeoParam::make_minsec(deg)
make_minsec(deg) == MinSecOf(DegRounded(deg), NotBelowZero(deg))

\* MinSecResult::new(deg)
MinSecResult_new(deg) == MinSecOf(DegRounded(deg), NotBelowZero(deg))

\* ------------------------------------------------------------------------
\* TransverseMercator: zones, grid references and the projections
\* ------------------------------------------------------------------------
UTM_ZONE_LETTERS == "CCCDEFGHJKLMNPQRSTUVWXXX"
OSGB36_LETTERS == "ABCDEFGHJKLMNOPQRSTUVWXYZ"

\* the f64 of a signed count of 1/Unit
FromVal(v) == IF v < 0 THEN Num(TRUE, 0 - v) ELSE Num(FALSE, v)

\* hundredths of a degree
Hundredths(h) == FromVal(h * Hundredth)

\* (a..b).contains(&x) and (a..=b).contains(&x)
InRange(a, b, x) == Le(a, x) /\ Lt(x, b)
InRangeInclusive(a, b, x) == Le(a, x) /\ Le(x, b)

\* longitude - ((longitude + 180.0) / 360.0).floor() * 360.0; inf - inf
\* is NaN
normalize_longitude(longitude) ==
    IF longitude.kind # "num" THEN NaN
    ELSE FromVal(Val(longitude)
                 - ((Val(longitude) + 180 * Unit) \div (360 * Unit)) * (360 * Unit))

\* ((longitude + 180.0) / 6.0) as i32 + 1; NaN as i32 is 0
StandardZone(longitude) ==
    IF longitude.kind # "num" THEN 1
    ELSE (Val(longitude) + 180 * Unit) \div (6 * Unit) + 1

\* the Svalbard zones
SvalbardZone(lon) ==
    IF Lt(lon, F(9)) THEN 31
    ELSE IF Lt(lon, F(21)) THEN 33
    ELSE IF Lt(lon, F(33)) THEN 35
    ELSE 37

\* mutant of ZoneNumber: no exception for Norway
ZoneNumber_NoNorway(lat, lon) ==
    IF InRange(F(72), F(84), lat) /\ InRange(F(0), F(42), lon)
    THEN SvalbardZone(lon)
    ELSE StandardZone(lon)

\* the match on (latitude, longitude), the longitude normalised
ZoneNumber(lat, lon) ==
    IF InRange(F(56), F(64), lat) /\ InRange(F(3), F(12), lon) THEN 32
    ELSE IF InRange(F(72), F(84), lat) /\ InRange(F(0), F(42), lon)
         THEN SvalbardZone(lon)
    ELSE StandardZone(lon)

\* ((latitude + 96.0) / 8.0) as usize, which saturates, then
\* .min(UTM_ZONE_LETTERS.len() - 1)
LetterIndex(latitude) ==
    IF latitude.kind = "nan" THEN 0
    ELSE IF latitude.kind = "inf"
         THEN (IF latitude.neg THEN 0 ELSE Len(UTM_ZONE_LETTERS) - 1)
    ELSE IF Val(latitude) + 96 * Unit < 0 THEN 0
    ELSE IF (Val(latitude) + 96 * Unit) \div (8 * Unit) > Len(UTM_ZONE_LETTERS) - 1
         THEN Len(UTM_ZONE_LETTERS) - 1
    ELSE (Val(latitude) + 96 * Unit) \div (8 * Unit)

\* s.chars().nth(i).unwrap_or('X')
NthOrX(s, i) == IF i >= 0 /\ i < Len(s) THEN SubSeq(s, i + 1, i + 1) ELSE "X"

\* format!("{zone_number}{zone_letter}")
ZoneLabel(zone_number, letter_index) ==
    NatToString(zone_number) \o NthOrX(UTM_ZONE_LETTERS, letter_index)

ZoneOf(latitude, longitude) ==
    ZoneLabel(ZoneNumber(latitude, longitude), LetterIndex(latitude))

\* TransverseMercator::compute_utm_zone(latitude, longitude)
compute_utm_zone(latitude, longitude) ==
    ZoneOf(latitude, normalize_longitude(longitude))

\* northing and easting: f64 metres, here a sign and a count of
\* centimetres
Metres(neg, cm) == [neg |-> neg, cm |-> cm]
ZeroMetres == Metres(FALSE, 0)
CmPerMetre == 100

\* ProjectionResult::default() and TransverseMercator::default(); the
\* ellipsoid and the projection parameters are known by their names
ProjectionResult_default ==
    [northing |-> ZeroMetres, easting |-> ZeroMetres, zone |-> ""]

TransverseMercator_default ==
    [result |-> ProjectionResult_default, ellipsoid |-> "WGS84", params |-> "UTM"]

\* what a call leaves: the object, the value returned, the result fields
\* it assigned, and what project_to_tm returned to it
Outcome(t, ret, wrote, projected) ==
    [tm |-> t, ret |-> ret, wrote |-> wrote, projected |-> projected]

\* zone.chars().take_while(|c| c.is_ascii_digit()).collect::<String>()
RECURSIVE LeadingDigits(_)
LeadingDigits(s) ==
    IF s = "" \/ ~IsDigit(Head(s)) THEN ""
    ELSE Head(s) \o LeadingDigits(Tail(s))

\* (zone_num - 1) as f64 * 6.0 - 180.0 + 3.0, zone_num 1 when the parse
\* fails
CentralMeridian(parsed) ==
    F(((IF parsed.ok THEN parsed.val ELSE 1) - 1) * 6 - 180 + 3)

zone_central_meridian(zone) == CentralMeridian(parse_i32(LeadingDigits(zone)))

\* mutant of project_to_tm: the latitude is not validated
project_to_tm_AnyLatitude(t, latitude, longitude, latitude_origin, longitude_origin, series) ==
    IF ~InRangeInclusive(F(-180), F(180), longitude)
    THEN Outcome(t, FALSE, {}, FALSE)
    ELSE Outcome([t EXCEPT !.result.northing = series.northing,
                           !.result.easting = series.easting],
                 TRUE, {"northing", "easting"}, TRUE)

\* self.project_to_tm(latitude, longitude, latitude_origin,
\* longitude_origin). The trigonometric series are not evaluated: series
\* is the pair of values they give for these arguments, the ellipsoid and
\* the parameters of self.
project_to_tm(t, latitude, longitude, latitude_origin, longitude_origin, series) ==
    IF ~InRangeInclusive(F(-180), F(180), longitude)
       \/ ~InRangeInclusive(F(-80), F(84), latitude)
    THEN Outcome(t, FALSE, {}, FALSE)
    ELSE Outcome([t EXCEPT !.result.northing = series.northing,
                           !.result.easting = series.easting],
                 TRUE, {"northing", "easting"}, TRUE)

\* self.lat_lon_zone_to_utm(latitude, longitude, zone)
lat_lon_zone_to_utm(t, latitude, longitude, zone, series) ==
    project_to_tm(t, latitude, longitude, Zero, zone_central_meridian(zone), series)

\* (x / 100_000.0).floor() as i32
Floor100km(x) ==
    IF x.neg /\ x.cm > 0
    THEN 0 - ((x.cm + 100000 * CmPerMetre - 1) \div (100000 * CmPerMetre))
    ELSE x.cm \div (100000 * CmPerMetre)

\* x as i32: towards zero
MetresAsI32(x) ==
    IF x.neg THEN 0 - (x.cm \div CmPerMetre) ELSE x.cm \div CmPerMetre

\* i32 % of Rust: the sign of the dividend
Rem(a, b) == IF a < 0 THEN 0 - ((0 - a) % b) ELSE a % b

\* i32 / of Rust: towards zero
Quot(a, b) == IF a < 0 THEN 0 - ((0 - a) \div b) ELSE a \div b

\* zeros in front of a text up to a width
RECURSIVE PadLeft(_, _)
PadLeft(s, width) == IF Len(s) >= width THEN s ELSE PadLeft("0" \o s, width)

\* format!("{n:05}"): the sign counts in the width
ZeroPad5(n) ==
    IF n < 0 THEN "-" \o PadLeft(NatToString(0 - n), 4)
    ELSE PadLeft(NatToString(n), 5)

\* mutant of GridReference: the second letter counts the rows upwards
GridReference_RowsUp(grid_x, grid_y, result) ==
    IF ~(grid_x \in 0..6) \/ ~(grid_y \in 0..12) THEN ""
    ELSE NthOrX(OSGB36_LETTERS, 17 - Quot(grid_y, 5) * 5 + Quot(grid_x, 5))
         \o NthOrX(OSGB36_LETTERS, Rem(grid_y, 5) * 5 + Rem(grid_x, 5))
         \o ZeroPad5(Rem(MetresAsI32(result.easting), 100000))
         \o ZeroPad5(Rem(MetresAsI32(result.northing), 100000))

\* the reference of the cell (grid_x, grid_y)
GridReference(grid_x, grid_y, result) ==
    IF ~(grid_x \in 0..6) \/ ~(grid_y \in 0..12) THEN ""
    ELSE NthOrX(OSGB36_LETTERS, 17 - Quot(grid_y, 5) * 5 + Quot(grid_x, 5))
         \o NthOrX(OSGB36_LETTERS, 20 - Rem(grid_y, 5) * 5 + Rem(grid_x, 5))
         \o ZeroPad5(Rem(MetresAsI32(result.easting), 100000))
         \o ZeroPad5(Rem(MetresAsI32(result.northing), 100000))

\* self.format_osgb36_reference()
format_osgb36_reference(t) ==
    GridReference(Floor100km(t.result.easting), Floor100km(t.result.northing),
                  t.result)

\* the String returned after project_to_tm
Osgb36Return(projected) ==
    [projected EXCEPT
        !.ret = IF ~projected.ret THEN "" ELSE format_osgb36_reference(projected.tm)]

\* self.lat_lon_to_osgb36(latitude, longitude)
lat_lon_to_osgb36(t, latitude, longitude, series) ==
    Osgb36Return(project_to_tm([t EXCEPT !.ellipsoid = "AIRY_1830",
                                         !.params = "OSGB36"],
                               latitude, longitude, F(49), F(-2), series))

\* mutant of lat_lon_to_ch1903: a failure leaves the result alone
lat_lon_to_ch1903_KeepResult(t, latitude, longitude, polynomial) ==
    IF ~InRangeInclusive(Hundredths(4550), F(48), latitude)
       \/ ~InRangeInclusive(F(5), F(11), longitude)
    THEN Outcome(t, FALSE, {}, FALSE)
    ELSE Outcome([t EXCEPT !.result.northing = polynomial.northing,
                           !.result.easting = polynomial.easting],
                 TRUE, {"northing", "easting"}, FALSE)

\* self.lat_lon_to_ch1903(latitude, longitude). The polynomials are not
\* evaluated: polynomial is the pair of values they give for these
\* arguments.
lat_lon_to_ch1903(t, latitude, longitude, polynomial) ==
    IF ~InRangeInclusive(Hundredths(4550), F(48), latitude)
       \/ ~InRangeInclusive(F(5), F(11), longitude)
    THEN Outcome([t EXCEPT !.result.easting = ZeroMetres,
                           !.result.northing = ZeroMetres],
                 FALSE, {"northing", "easting"}, FALSE)
    ELSE Outcome([t EXCEPT !.result.northing = polynomial.northing,
                           !.result.easting = polynomial.easting],
                 TRUE, {"northing", "easting"}, FALSE)

\* ------------------------------------------------------------------------
\* Scale values: f64 numbers too large for the angle unit above, held as a
\* whole part and hundredths
\* ------------------------------------------------------------------------
Wide(neg, whole, cents) ==
    [kind |-> "num", neg |-> neg, whole |-> whole, cents |-> cents]
WideNaN == [kind |-> "nan", neg |-> FALSE, whole |-> 0, cents |-> 0]
WideInf(neg) == [kind |-> "inf", neg |-> neg, whole |-> 0, cents |-> 0]

\* the f64 of an i32
WideInt(n) == IF n < 0 THEN Wide(TRUE, 0 - n, 0) ELSE Wide(FALSE, n, 0)

\* x >= whole + cents / 100, for a threshold above zero
WideGe(x, whole, cents) ==
    IF x.kind = "nan" THEN FALSE
    ELSE IF x.kind = "inf" THEN ~x.neg
    ELSE ~x.neg /\ (x.whole > whole \/ (x.whole = whole /\ x.cents >= cents))

\* x > 0.0
WidePositive(x) ==
    IF x.kind = "nan" THEN FALSE
    ELSE IF x.kind = "inf" THEN ~x.neg
    ELSE ~x.neg /\ (x.whole > 0 \/ x.cents > 0)

WideValue(iv, fv, neg) ==
    IF iv < 0 THEN [ok |-> FALSE, val |-> WideNaN]
    ELSE [ok |-> TRUE, val |-> Wide(neg, iv, fv)]

\* a text without the zeros at its end
RECURSIVE StripZeros(_)
StripZeros(s) ==
    IF s # "" /\ SubSeq(s, Len(s), Len(s)) = "0"
    THEN StripZeros(SubSeq(s, 1, Len(s) - 1))
    ELSE s

\* digits '.' digits; the zeros at the end of the fraction do not count
WideParts(ip, fp, neg) ==
    IF ip \o fp = "" \/ ~AllDigits(ip) \/ ~AllDigits(fp)
       \/ Len(StripZeros(fp)) > 2
    THEN [ok |-> FALSE, val |-> WideNaN]
    ELSE WideValue(DigitsValue(ip, 0, I32Max), FracHundredths(StripZeros(fp)),
                   neg)

WideDecimal(body, neg, dot) ==
    WideParts(IF dot = 0 THEN body ELSE Before(body, dot),
              IF dot = 0 THEN "" ELSE After(body, dot), neg)

WideBody(body, upper, neg) ==
    IF upper = "NAN" THEN [ok |-> TRUE, val |-> WideNaN]
    ELSE IF upper \in {"INF", "INFINITY"} THEN [ok |-> TRUE, val |-> WideInf(neg)]
    ELSE WideDecimal(body, neg, Find(body, "."))

WideUnsigned(body, neg) == WideBody(body, to_uppercase(body), neg)

\* str::parse::<f64>() of an attribute value: as parse_f64, with whole parts
\* up to I32Max and two fraction digits
parse_f64_wide(s) == WideUnsigned(Unsigned(s), Negative(s))

\* f64::to_string() of a scale value
wide_to_string(x) ==
    IF x.kind = "nan" THEN "NaN"
    ELSE IF x.kind = "inf" THEN (IF x.neg THEN "-inf" ELSE "inf")
    ELSE (IF x.neg THEN "-" ELSE "") \o NatToString(x.whole) \o FracString(x.cents)

\* ------------------------------------------------------------------------
\* MiscMapSourceValues: the quantities derived from the scale
\* ------------------------------------------------------------------------
\* (threshold, result), in the order of the table
MMSCALE_THRESHOLDS ==
    <<<<30000000, 40000000>>, <<14000000, 20000000>>, <<6300000, 10000000>>,
      <<2800000, 4000000>>, <<1400000, 2000000>>, <<700000, 1000000>>,
      <<310000, 500000>>, <<140000, 200000>>, <<70000, 100000>>,
      <<35000, 50000>>, <<15000, 25000>>, <<7000, 10000>>>>

get_scale_float(attr) ==
    IF "scale" \in DOMAIN attr /\ parse_f64_wide(attr["scale"]).ok
    THEN parse_f64_wide(attr["scale"]).val
    ELSE WideInt(300000)

\* mutant of FindThreshold: the table is searched from its last entry
RECURSIVE FindThreshold_FromEnd(_, _, _)
FindThreshold_FromEnd(table, scale_float, i) ==
    IF i > Len(table) THEN 5000
    ELSE IF WideGe(scale_float, table[Len(table) + 1 - i][1], 0)
         THEN table[Len(table) + 1 - i][2]
    ELSE FindThreshold_FromEnd(table, scale_float, i + 1)

\* iter().find(): the result of the first entry from position i on whose
\* threshold the scale reaches, 5000 when there is none
RECURSIVE FindThreshold(_, _, _)
FindThreshold(table, scale_float, i) ==
    IF i > Len(table) THEN 5000
    ELSE IF WideGe(scale_float, table[i][1], 0) THEN table[i][2]
    ELSE FindThreshold(table, scale_float, i + 1)

get_mmscale(scale_float) == FindThreshold(MMSCALE_THRESHOLDS, scale_float, 1)

\* the hundredths from which on (18.0 - ln(scale)) as i32 is one less:
\* the least scale above e^9, e^10, ..., e^17
LnSteps ==
    <<<<8103, 9>>, <<22026, 47>>, <<59874, 15>>, <<162754, 80>>,
      <<442413, 40>>, <<1202604, 29>>, <<3269017, 38>>, <<8886110, 53>>,
      <<24154952, 76>>>>

\* the hundredths from which on round(log2(scale) - log2(1693)) is one
\* more: the least scale that reaches 1693 * 2^(j - 0.5), j = 1..18
Log2Steps ==
    <<<<2394, 27>>, <<4788, 53>>, <<9577, 6>>, <<19154, 11>>, <<38308, 22>>,
      <<76616, 44>>, <<153232, 87>>, <<306465, 74>>, <<612931, 48>>,
      <<1225862, 95>>, <<2451725, 89>>, <<4903451, 78>>, <<9806903, 55>>,
      <<19613807, 10>>, <<39227614, 19>>, <<78455228, 38>>,
      <<156910456, 75>>, <<313820913, 49>>>>

\* the number of entries of steps the scale reaches
StepsReached(steps, scale_float) ==
    Cardinality({i \in 1..Len(steps) :
                    WideGe(scale_float, steps[i][1], steps[i][2])})

\* the if, then .clamp(0, 18)
get_osmzoom(scale_float) ==
    IF WidePositive(scale_float) THEN 18 - StepsReached(Log2Steps, scale_float)
    ELSE 12

\* the if, then .clamp(0, 9)
get_zoom(scale_float) ==
    IF WidePositive(scale_float) THEN 9 - StepsReached(LnSteps, scale_float)
    ELSE 9

\* x as i32 for x = scale * 143 / 1000000, truncated toward zero; the
\* product is split at the millions to stay within the integers
Altitude(whole, cents) ==
    (whole \div 1000000) * 143
    + ((whole % 1000000) * 143 + (cents * 143) \div 100) \div 1000000

\* mutant of AltitudeAsI32: the quotient is rounded to the nearest integer
AltitudeAsI32_Rounded(x) ==
    IF x.kind = "nan" THEN 0
    ELSE IF x.kind = "inf" THEN (IF x.neg THEN (0 - I32Max) - 1 ELSE I32Max)
    ELSE IF x.neg THEN 0 - (((x.whole \div 1000000) * 143)
                 + ((x.whole % 1000000) * 143 + (x.cents * 143) \div 100 + 500000)
                   \div 1000000)
    ELSE ((x.whole \div 1000000) * 143)
         + ((x.whole % 1000000) * 143 + (x.cents * 143) \div 100 + 500000)
           \div 1000000

\* (scale_float * 143.0 / 1000000.0) as i32: NaN is 0, an infinity
\* saturates
AltitudeAsI32(x) ==
    IF x.kind = "nan" THEN 0
    ELSE IF x.kind = "inf" THEN (IF x.neg THEN (0 - I32Max) - 1 ELSE I32Max)
    ELSE IF x.neg THEN 0 - Altitude(x.whole, x.cents)
    ELSE Altitude(x.whole, x.cents)

\* i32::max
MaxI32(a, b) == IF a >= b THEN a ELSE b

get_altitude(scale_float) == MaxI32(AltitudeAsI32(scale_float), 1)

\* scale_float * 1.0 / 1000000.0, held as the scale and its divisor
get_scale_float_span(scale_float) == [scale |-> scale_float, per |-> 1000000]

\* the struct, its derived fields computed from scale_float
MiscOf(r_pagename, r_title, region, attr, scale_float) ==
    [r_pagename |-> r_pagename, r_title |-> r_title,
     scale_float |-> scale_float,
     zoom |-> get_zoom(scale_float),
     osmzoom |-> get_osmzoom(scale_float),
     altitude |-> get_altitude(scale_float),
     span |-> get_scale_float_span(scale_float),
     mmscale |-> get_mmscale(scale_float),
     region |-> region, attr |-> attr]

MiscMapSourceValues_new(r_pagename, r_title, region, attr) ==
    MiscOf(r_pagename, r_title, region, attr, get_scale_float(attr))

\* ------------------------------------------------------------------------
\* MapSources: the scale of the page
\* ------------------------------------------------------------------------
\* str::replace(from, to) for texts: the matches from left to right, none
\* overlapping another
RECURSIVE ReplaceStr(_, _, _)
ReplaceStr(s, from, to) ==
    IF Len(s) < Len(from) THEN s
    ELSE IF SubSeq(s, 1, Len(from)) = from
         THEN to \o ReplaceStr(SubSeq(s, Len(from) + 1, Len(s)), from, to)
    ELSE SubSeq(s, 1, 1) \o ReplaceStr(SubSeq(s, 2, Len(s)), from, to)

\* i32::to_string()
I32ToString(n) == IF n < 0 THEN "-" \o NatToString(0 - n) ELSE NatToString(n)

\* Result<f64>::unwrap_or(0.0)
WideOrZero(parsed) == IF parsed.ok THEN parsed.val ELSE Wide(FALSE, 0, 0)

\* x / 0.1. The f64 nearest to 0.1 is above it by less than half a unit in
\* the last place of any quotient, so the quotient of a whole number of
\* quarters is ten times the number; other finite operands are outside
\* the runs.
DivTenth(x) ==
    CASE x.kind # "num" -> x
      [] x.kind = "num" /\ x.cents % 25 = 0 /\ x.whole < I32Max \div 10 ->
            Wide(x.neg, x.whole * 10 + ((x.cents * 10) \div 100),
                 (x.cents * 10) % 100)

\* dim.replace("km", "000").replace("m", "").parse::<f64>().unwrap_or(0.0)
dim_value(dim) ==
    WideOrZero(parse_f64_wide(ReplaceStr(ReplaceStr(dim, "km", "000"), "m", "")))

\* MapSources::scale_dim(attr)
scale_dim(attr) ==
    IF "scale" \notin DOMAIN attr /\ "dim" \in DOMAIN attr
    THEN Insert(attr, "scale", wide_to_string(DivTenth(dim_value(attr["dim"]))))
    ELSE attr

\* 2_f64.powf(e) * 100000.0 for a whole exponent, exact down to 2^-7
Pow2Scale(e) ==
    CASE e \in 0..14 -> Wide(FALSE, (2 ^ e) * 100000, 0)
      [] e \in -7..-1 -> Wide(FALSE, (10000000 \div (2 ^ (0 - e))) \div 100,
                                     (10000000 \div (2 ^ (0 - e))) % 100)

\* 2_f64.powf(12.0 - zoom_val) * 100000.0; zooms with a fraction are
\* outside the runs
ZoomScale(zoom_val) ==
    CASE zoom_val.kind = "nan" -> WideNaN
      [] zoom_val.kind = "inf" ->
            (IF zoom_val.neg THEN WideInf(FALSE) ELSE Wide(FALSE, 0, 0))
      [] zoom_val.kind = "num" /\ zoom_val.cents = 0 ->
            Pow2Scale(12 - (IF zoom_val.neg THEN 0 - zoom_val.whole
                            ELSE zoom_val.whole))

\* the map with the scale of a zoom that parsed
ZoomInserted(attr, parsed) ==
    IF parsed.ok
    THEN Insert(attr, "scale", wide_to_string(ZoomScale(parsed.val)))
    ELSE attr

\* MapSources::scale_zoom(attr)
scale_zoom(attr) ==
    IF "scale" \notin DOMAIN attr /\ "zoom" \in DOMAIN attr
    THEN ZoomInserted(attr, parse_f64_wide(attr["zoom"]))
    ELSE attr

\* the table of default_scale: the scale of a type
DefaultScaleTable ==
    ("country" :> 10000000) @@ ("satellite" :> 10000000)
    @@ ("state" :> 3000000) @@ ("adm1st" :> 1000000)
    @@ ("adm2nd" :> 300000) @@ ("adm3rd" :> 100000)
    @@ ("city" :> 100000) @@ ("isle" :> 100000)
    @@ ("mountain" :> 100000) @@ ("river" :> 100000)
    @@ ("waterbody" :> 100000) @@ ("event" :> 50000)
    @@ ("forest" :> 50000) @@ ("glacier" :> 50000)
    @@ ("airport" :> 30000) @@ ("railwaystation" :> 10000)
    @@ ("edu" :> 10000) @@ ("pass" :> 10000)
    @@ ("camera" :> 10000) @@ ("landmark" :> 10000)

\* attr.get(key).and_then(|s| s.parse::<i32>().ok()).unwrap_or(0)
I32Attr(attr, key) ==
    IF key \in DOMAIN attr /\ parse_i32(attr[key]).ok
    THEN parse_i32(attr[key]).val
    ELSE 0

\* default after the look-up of the type
TypeDefault(attr, default) ==
    IF default = 0 /\ "type" \in DOMAIN attr
       /\ attr["type"] \in DOMAIN DefaultScaleTable
    THEN DefaultScaleTable[attr["type"]]
    ELSE default

\* default after the assumption from the number of coordinate tokens
PrecisionDefault(coor, default) ==
    IF default # 0 THEN default
    ELSE IF Len(coor) = 8 THEN 10000
    ELSE IF Len(coor) = 6 THEN 100000
    ELSE 300000

\* self.default_scale(attr)
default_scale(p, attr) ==
    IF I32Attr(attr, "scale") <= 0
    THEN Insert(attr, "scale",
                I32ToString(PrecisionDefault(p.coor,
                                TypeDefault(attr, I32Attr(attr, "default")))))
    ELSE attr

\* the three steps of build_output on the map of get_attr
ResolvedScale(p, attr) == default_scale(p, scale_zoom(scale_dim(attr)))

\* ------------------------------------------------------------------------
\* MapSources: CoordinateGroup and TransverseMercatorForms
\* ------------------------------------------------------------------------
\* the fraction of n steps of 10^-k, as Display writes it
StepsFraction(frac, k) ==
    IF frac = 0 THEN "" ELSE "." \o StripZeros(PadLeft(NatToString(frac), k))

\* f64::to_string() of a field rounded to k decimals
StepsToString(x, k) ==
    IF x.kind = "nan" THEN "NaN"
    ELSE IF x.kind = "inf" THEN (IF x.neg THEN "-inf" ELSE "inf")
    ELSE (IF x.neg THEN "-" ELSE "")
         \o NatToString(x.n \div (10 ^ k))
         \o StepsFraction(x.n % (10 ^ k), k)

\* f64::abs and the unary minus
StepsAbs(x) == [x EXCEPT !.neg = FALSE]
StepsNeg(x) == IF x.kind = "nan" THEN x ELSE [x EXCEPT !.neg = ~x.neg]

\* f64::round of a field of k decimals: halves away from zero, the sign
\* kept
StepsRound(x, k) ==
    IF x.kind # "num" THEN x
    ELSE Steps(x.neg, RoundDiv(x.n, 10 ^ k) * (10 ^ k))

\* x as i32: towards zero, NaN to 0, saturating
StepsAsI32(x, k) ==
    IF x.kind = "nan" THEN 0
    ELSE IF x.kind = "inf" THEN (IF x.neg THEN (0 - I32Max) - 1 ELSE I32Max)
    ELSE IF x.neg THEN 0 - (x.n \div (10 ^ k))
    ELSE x.n \div (10 ^ k)

\* x.abs().ceil() as i32
StepsOuterAbs(x, k) ==
    IF x.kind = "nan" THEN 0
    ELSE IF x.kind = "inf" THEN I32Max
    ELSE (x.n + (10 ^ k) - 1) \div (10 ^ k)

\* x > 0.0
StepsPositive(x) ==
    IF x.kind = "nan" THEN FALSE
    ELSE IF x.kind = "inf" THEN ~x.neg
    ELSE ~x.neg /\ x.n > 0

\* the f64 of a signed count of millionths; a zero sum is +0.0
StepsFromMillionths(v) == IF v < 0 THEN Steps(TRUE, 0 - v) ELSE Steps(FALSE, v)

\* lon.deg - 180.0 or lon.deg + 180.0. The sum is exact when the degrees
\* are a whole number of 64ths; other finite degrees are outside the runs.
Antipode(lon_deg) ==
    CASE lon_deg.kind # "num" -> lon_deg
      [] lon_deg.kind = "num" /\ lon_deg.n % 15625 = 0 ->
            IF StepsPositive(lon_deg)
            THEN StepsFromMillionths(lon_deg.n - 180000000)
            ELSE StepsFromMillionths(180000000 - lon_deg.n)

\* the hack for negative, small degrees
DegInt(deg, field) ==
    IF Lt(deg, Zero) /\ StepsAsI32(field, 6) = 0 THEN "-0"
    ELSE I32ToString(StepsAsI32(field, 6))

DegRound(deg, field) ==
    IF Lt(deg, Zero) /\ StepsAsI32(StepsRound(field, 6), 6) = 0 THEN "-0"
    ELSE StepsToString(StepsRound(field, 6), 6)

\* the struct from the two MinSecResult
CoordinateGroupOf(p, lat, lon) ==
    [lat |-> lat, lon |-> lon,
     latdegint |-> DegInt(p.latdeg, lat.deg),
     londegint |-> DegInt(p.londeg, lon.deg),
     latdeground |-> DegRound(p.latdeg, lat.deg),
     londeground |-> DegRound(p.londeg, lon.deg),
     latdeg_outer_abs |-> StepsOuterAbs(lat.deg, 6),
     londeg_outer_abs |-> StepsOuterAbs(lon.deg, 6),
     longantipodes |-> Antipode(lon.deg)]

\* CoordinateGroup::new(p)
CoordinateGroup_new(p) ==
    CoordinateGroupOf(p, make_minsec(p.latdeg), make_minsec(p.londeg))

\* the first 27 replacements, in the order of the vector
CoordinateTokens(cg) ==
    <<StepsToString(cg.lat.deg, 6),
      StepsToString(cg.lon.deg, 6),
      StepsToString(StepsAbs(cg.lat.deg), 6),
      StepsToString(StepsAbs(cg.lon.deg), 6),
      cg.latdeground,
      cg.londeground,
      StepsToString(StepsAbs(StepsRound(cg.lat.deg, 6)), 6),
      StepsToString(StepsAbs(StepsRound(cg.lon.deg, 6)), 6),
      I32ToString(cg.latdeg_outer_abs),
      I32ToString(cg.londeg_outer_abs),
      StepsToString(StepsNeg(cg.lat.deg), 6),
      StepsToString(cg.longantipodes, 6),
      StepsToString(StepsNeg(cg.lon.deg), 6),
      cg.latdegint,
      cg.londegint,
      I32ToString(StepsAsI32(StepsAbs(cg.lat.deg), 6)),
      I32ToString(StepsAsI32(StepsAbs(cg.lon.deg), 6)),
      StepsToString(cg.lat.min, 4),
      StepsToString(cg.lon.min, 4),
      I32ToString(StepsAsI32(cg.lat.min, 4)),
      I32ToString(StepsAsI32(cg.lon.min, 4)),
      StepsToString(cg.lat.sec, 2),
      StepsToString(cg.lon.sec, 2),
      I32ToString(StepsAsI32(cg.lat.sec, 2)),
      I32ToString(StepsAsI32(cg.lon.sec, 2)),
      cg.lat.ns,
      cg.lon.ew>>

\* utm.lat_lon_to_utm(latitude, longitude): the projection in the zone of
\* the coordinates
lat_lon_to_utm(t, latitude, longitude, series) ==
    lat_lon_zone_to_utm(t, latitude, longitude,
                        compute_utm_zone(latitude, longitude), series)

\* utm.lat_lon_to_utm_zone(latitude, longitude)
lat_lon_to_utm_zone(latitude, longitude) == compute_utm_zone(latitude, longitude)

\* the struct from what the four calls left
FormsOf(utm, utm33, osgb36, ch1903) ==
    [utm |-> utm.tm, utm33 |-> utm33.tm, osgb36 |-> osgb36.tm,
     osgb36ref |-> osgb36.ret, ch1903 |-> ch1903.tm]

\* TransverseMercatorForms::new(p); formulas holds what the series and
\* the polynomials give at the coordinates of p
TransverseMercatorForms_new(p, formulas) ==
    FormsOf(
        [lat_lon_to_utm(TransverseMercator_default, p.latdeg, p.londeg,
                        formulas.utm)
         EXCEPT !.tm.result.zone = lat_lon_to_utm_zone(p.latdeg, p.londeg)],
        lat_lon_zone_to_utm(TransverseMercator_default, p.latdeg, p.londeg,
                            "33V", formulas.utm33),
        lat_lon_to_osgb36(TransverseMercator_default, p.latdeg, p.londeg,
                          formulas.osgb36),
        lat_lon_to_ch1903(TransverseMercator_default, p.latdeg, p.londeg,
                          formulas.ch1903))

\* x.round().to_string()
MetresRounded(x) ==
    (IF x.neg THEN "-" ELSE "") \o NatToString(RoundDiv(x.cm, CmPerMetre))

\* the replacements 28 to 37
ProjectionTokens(tmf) ==
    <<tmf.utm.result.zone,
      MetresRounded(tmf.utm.result.northing),
      MetresRounded(tmf.utm.result.easting),
      MetresRounded(tmf.utm33.result.northing),
      MetresRounded(tmf.utm33.result.easting),
      tmf.osgb36ref,
      MetresRounded(tmf.osgb36.result.northing),
      MetresRounded(tmf.osgb36.result.easting),
      MetresRounded(tmf.ch1903.result.northing),
      MetresRounded(tmf.ch1903.result.easting)>>

\* ------------------------------------------------------------------------
\* MapSources: the replacements and the page
\* ------------------------------------------------------------------------
\* the printable ASCII characters but the grave accent, from code 32 and
\* from code 97 on
AsciiLow ==
    " !\"#$%&'()*+,-./0123456789:;<=>?@ABCDEFGHIJKLMNOPQRSTUVWXYZ[\\]^_"
AsciiHigh == "abcdefghijklmnopqrstuvwxyz{|}~"
CharCode(c) ==
    IF Find(AsciiLow, c) > 0 THEN Find(AsciiLow, c) + 31
    ELSE Find(AsciiHigh, c) + 96
HexDigits == "0123456789ABCDEF"
Unreserved == Digits \o UpperCase \o LowerCase \o "-_.~"

\* %XX of a character code
PercentCode(code) ==
    "%" \o SubSeq(HexDigits, (code \div 16) + 1, (code \div 16) + 1)
        \o SubSeq(HexDigits, (code % 16) + 1, (code % 16) + 1)

PercentEncoded(c) ==
    IF Find(Unreserved, c) > 0 THEN c ELSE PercentCode(CharCode(c))

\* urlencoding::encode on ASCII text
RECURSIVE urlencoding_encode(_)
urlencoding_encode(s) ==
    IF s = "" THEN ""
    ELSE PercentEncoded(SubSeq(s, 1, 1)) \o urlencoding_encode(SubSeq(s, 2, Len(s)))

\* html_escape::encode_text
encode_text(s) ==
    ReplaceStr(ReplaceStr(ReplaceStr(s, "&", "&amp;"), "<", "&lt;"), ">", "&gt;")

\* the page name for Google Maps: encoded, %20 turned into +, encoded again
pagename_gmaps(r_pagename) ==
    urlencoding_encode(ReplaceStr(urlencoding_encode(r_pagename), "%20", "+"))

\* attr.get(key).unwrap_or(&String::new())
AttrOrEmpty(attr, key) == IF key \in DOMAIN attr THEN attr[key] ELSE ""

\* r[4..r.len().min(12)].to_uppercase() of the region, "" when shorter
\* than 4 or absent
RegionTail(attr) ==
    IF "region" \in DOMAIN attr /\ Len(attr["region"]) >= 4
    THEN to_uppercase(SubSeq(attr["region"], 5,
                             IF Len(attr["region"]) < 12
                             THEN Len(attr["region"]) ELSE 12))
    ELSE ""

\* self.get_region(attr): only the region of the if chain is returned
get_region(attr) ==
    IF "page" \in DOMAIN attr THEN ""
    ELSE IF "globe" \in DOMAIN attr THEN ""
    ELSE IF "region" \in DOMAIN attr /\ attr["region"] # ""
         THEN "/" \o to_uppercase(SubSeq(attr["region"], 1,
                                         IF Len(attr["region"]) < 2
                                         THEN Len(attr["region"]) ELSE 2))
    ELSE ""

\* f64::to_string() of scale_float * 1.0 / 1000000.0; the quotient of a
\* number of quarters is its decimal expansion, other finite scales are
\* outside the runs
SpanToString(span) ==
    CASE span.scale.kind = "nan" -> "NaN"
      [] span.scale.kind = "inf" -> (IF span.scale.neg THEN "-inf" ELSE "inf")
      [] span.scale.kind = "num" /\ span.scale.cents % 25 = 0 ->
            (IF span.scale.neg THEN "-" ELSE "")
            \o NatToString(span.scale.whole \div span.per)
            \o StepsFraction((span.scale.whole % span.per) * 100
                             + span.scale.cents, 8)

\* the replacements 38 to 56
MiscTokens(r_pagename, r_title, attr, scale_float, region, params, language) ==
    <<wide_to_string(scale_float),
      I32ToString(get_mmscale(scale_float)),
      I32ToString(get_altitude(scale_float)),
      I32ToString(get_zoom(scale_float)),
      I32ToString(get_osmzoom(scale_float)),
      SpanToString(get_scale_float_span(scale_float)),
      AttrOrEmpty(attr, "type"),
      AttrOrEmpty(attr, "region"),
      AttrOrEmpty(attr, "globe"),
      AttrOrEmpty(attr, "page"),
      r_pagename,
      r_title,
      urlencoding_encode(r_pagename),
      urlencoding_encode(r_title),
      region,
      RegionTail(attr),
      encode_text(params),
      encode_text(language),
      pagename_gmaps(r_pagename)>>

\* the names of the placeholders, in the order of the replacements
SearchKeys ==
    <<"latdegdec", "londegdec", "latdegdecabs", "londegdecabs",
      "latdeground", "londeground", "latdegroundabs", "londegroundabs",
      "latdeg_outer_abs", "londeg_outer_abs", "latantipodes",
      "longantipodes", "londegneg", "latdegint", "londegint", "latdegabs",
      "londegabs", "latmindec", "lonmindec", "latminint", "lonminint",
      "latsecdec", "lonsecdec", "latsecint", "lonsecint", "latNS", "lonEW",
      "utmzone", "utmnorthing", "utmeasting", "utm33northing",
      "utm33easting", "osgb36ref", "osgb36northing", "osgb36easting",
      "ch1903northing", "ch1903easting", "scale", "mmscale", "altitude",
      "zoom", "osmzoom", "span", "type", "region", "globe", "page",
      "pagename", "title", "pagenamee", "titlee", "geocountry", "geoa1",
      "params", "language", "pagename_gmaps">>

\* the list of data/search.json: every name in braces
search == [i \in DOMAIN SearchKeys |-> "{" \o SearchKeys[i] \o "}"]

\* MapSources::quote_html(s)
quote_html(s) == ReplaceStr(ReplaceStr(s, "{", "&#123;"), "}", "&#125;")

\* one for loop: the pattern i replaced by the replacement i, from i on;
\* an empty text holds no pattern
RECURSIVE ReplaceEach(_, _, _, _)
ReplaceEach(ret, patterns, replace, i) ==
    IF i > Len(patterns) \/ ret = "" THEN ret
    ELSE ReplaceEach(
             IF i <= Len(replace)
             THEN ReplaceStr(ret, patterns[i], replace[i])
             ELSE ret,
             patterns, replace, i + 1)

\* the two loops of replace_in_page over self.thetext: the quoted
\* patterns, then the plain ones
Replaced(thetext, replace) ==
    ReplaceEach(ReplaceEach(thetext,
                            [i \in DOMAIN search |-> quote_html(search[i])],
                            replace, 1),
                search, replace, 1)

\* the vector replace of replace_in_page
ReplaceVector(r_pagename, r_title, attr, scale_float, tmf, cg, region, params, language) ==
    CoordinateTokens(cg)
    \o ProjectionTokens(tmf)
    \o MiscTokens(r_pagename, r_title, attr, scale_float, region, params, language)

\* struct MapSources, as MapSources::new leaves it
MapSources(p, params, language) ==
    [p |-> p, mapsources |-> "Map sources", thetext |-> "",
     params |-> params, language |-> language]

\* the Result of MapSources::new from the Result of GeoParam::new
MapSourcesOf(r, params, language) ==
    [err |-> r.err, val |-> MapSources(r.geo, params, language)]

\* MapSources::new(params, language)
MapSources_new(params, language) ==
    MapSourcesOf(GeoParam_new(params), params, language)

\* what build_output leaves: self, with the pieces get_attr drained, the
\* map of get_attr, the map after the scale steps, the replacements and
\* the text returned
Built(self, r_pagename, r_title, drained, attr, replace) ==
    [self |-> [self EXCEPT !.p.pieces = drained.pieces],
     r_pagename |-> r_pagename, r_title |-> r_title,
     got |-> drained.attributes,
     attr |-> attr,
     replace |-> replace,
     ret |-> Replaced(self.thetext, replace)]

\* replace_in_page on the values build_output computed
BuiltWith(self, r_pagename, r_title, drained, attr, formulas) ==
    Built(self, r_pagename, r_title, drained, attr,
          ReplaceVector(r_pagename, r_title, attr, get_scale_float(attr),
                        TransverseMercatorForms_new(self.p, formulas),
                        CoordinateGroup_new(self.p),
                        get_region(attr), self.params, self.language))

BuiltFrom(self, r_pagename, r_title, drained, formulas) ==
    BuiltWith(self, r_pagename, r_title, drained,
              ResolvedScale(self.p, drained.attributes), formulas)

\* self.build_output(r_pagename, r_title)
build_output(self, r_pagename, r_title, formulas) ==
    BuiltFrom(self, r_pagename, r_title, AttrLoop(self.p.pieces, EmptyMap),
              formulas)

\* ------------------------------------------------------------------------
\* Inputs
\* ------------------------------------------------------------------------
\* the tokens joined by a separator into one raw parameter
RECURSIVE Join(_, _)
Join(toks, sep) ==
    IF toks = <<>> THEN ""
    ELSE IF Len(toks) = 1 THEN toks[1]
    ELSE toks[1] \o sep \o Join(Tail(toks), sep)

\* all sequences over S of length 0..n
SeqsUpTo(S, n) == UNION {[1..k -> S] : k \in 0..n}

LatLonCoords ==
    {<<lat \o ";" \o lon>> :
        lat \in {"40.5", "-91", "90", "x", "NaN", ""},
        lon \in {"-74.25", "361", "-360", ""}}

DegreesCoords ==
    {<<lat, ns, lon, ew>> :
        lat \in {"40", "90", "91", "-0", "-40"}, ns \in {"N", "s", "S"},
        lon \in {"74", "360", "361", "-74"}, ew \in {"E", "w", "O"}}

MinutesCoords ==
    {<<lat, latmin, ns, lon, lonmin, ew>> :
        lat \in {"40", "90", "-0", "-40"}, latmin \in {"30", "60", "61", "x"},
        ns \in {"N", "S"},
        lon \in {"74", "-74", "360"}, lonmin \in {"15", "-1"},
        ew \in {"E", "W"}}

SecondsCoords ==
    {<<lat, "30", latsec, ns, "74", lonmin, lonsec, ew>> :
        lat \in {"40", "-0", "90"}, latsec \in {"45", "60", "60.5", "NaN"},
        ns \in {"N", "S"},
        lonmin \in {"0", "59"}, lonsec \in {"21", "61"},
        ew \in {"E", "W"}}

SingleCoords == LatLonCoords \cup DegreesCoords \cup MinutesCoords \cup SecondsCoords

RangeFirst ==
    {<<"40", "N", "74", "W">>, <<"41", "30", "S", "73", "15", "E">>,
     <<"40.5;-74.25">>, <<"-0", "30", "0", "N", "0", "0", "0", "E">>}

RangeSecond ==
    LatLonCoords
    \cup {<<lat, ns, lon, ew>> :
            lat \in {"39", "41", "91"}, ns \in {"N", "S"},
            lon \in {"73", "75"}, ew \in {"E", "W"}}
    \cup {<<"40", "30", "N", "74", "15", "W">>,
          <<"89", "59", "60", "S", "359", "60", "60", "W">>,
          <<>>, <<"x">>, <<"to", "1;2">>}

RangeTails == {<<>>, <<"type:city">>, <<"to", "1;2">>}

Ranges ==
    {a \o <<"to">> \o b \o t : a \in RangeFirst, b \in RangeSecond, t \in RangeTails}

AttrTokens ==
    {"type:city", "type:town(7000000)", "type:a)b(c)", "scale:5",
     "region:JO", "region:CA-ON", ":x", "100000", "+7", "-3", "0", "O",
     "2147483648"}

WithTails ==
    {<<"40", "N", "74", "W">> \o t : t \in SeqsUpTo(AttrTokens, MaxTail)}

FreeTokens == {"7", "N", "e"}

FreeSeqs ==
    SeqsUpTo(FreeTokens, MaxFree)
    \cup {<<"1;2">> \o q : q \in SeqsUpTo(FreeTokens, 4)}
    \cup {<<"0">>, <<"+5", "n", "7.", "E">>, <<".5", "S", "inf", "W">>,
          <<"40", "N", "74", "W", "0", "21", "45", "E">>,
          <<"7", "7", "N", "N", "7", "e", "7", "e">>,
          <<"7", "7", "7", "N", "7", "7", "N", "e">>,
          <<"7", "7", "7", "7", "7", "7", "7", "e">>,
          <<"invalid", "coordinates", "here">>}

\* the separators a raw parameter is written with
Inputs ==
    ((SingleCoords \cup Ranges \cup WithTails \cup FreeSeqs) \X {"_"})
    \cup (DegreesCoords \X {" ", "_ "})

\* ------------------------------------------------------------------------
\* The state machine: one raw parameter, parsed once, then mined for
\* attributes
\* ------------------------------------------------------------------------
VARIABLES input, param, tokens, geo, err, attributes, calls, pc

\* the MiscMapSourceValues made so far
VARIABLES made

\* the last degrees formatted and their MinSecResult
VARIABLES dms

\* one TransverseMercator and the last call made on it
VARIABLES tm, call

\* the MapSources of a page, what the series and the polynomials give at
\* its coordinates, and what its calls of build_output left
VARIABLES ms, formulas, outputs

\* the last CoordinateGroup made and the GeoParam it was made from
VARIABLES group

\* the map of one shared Templates, its RwLock, the Instant of the clock
\* and the calls of load
VARIABLES templates, lock, now, loads

\* the variables of the parser, and those of the other components
parser == <<input, param, tokens, geo, err, attributes, calls, pc>>
projector == <<tm, call>>
page == <<ms, formulas, outputs>>
cache == <<templates, lock, now, loads>>
rest == <<made, dms, projector, page, group, cache>>
vars == <<input, param, tokens, geo, err, attributes, calls, pc, made, dms,
          tm, call, ms, formulas, outputs, group, templates, lock, now, loads>>

\* an empty map, a free lock, no call of load
CacheIdle ==
    /\ templates = EmptyMap
    /\ lock = [readers |-> {}, writer |-> 0]
    /\ now = 0
    /\ loads = <<>>

\* no component but the parser has run
RestIdle ==
    /\ made = {}
    /\ dms = <<>>
    /\ tm = TransverseMercator_default
    /\ call = <<>>
    /\ ms = <<>>
    /\ formulas = <<>>
    /\ outputs = <<>>
    /\ group = <<>>
    /\ CacheIdle

\* the parser is not part of the run
ParserIdle ==
    /\ input = <<>>
    /\ param = ""
    /\ tokens = <<>>
    /\ geo = GeoParam(<<>>)
    /\ err = ""
    /\ attributes = EmptyMap
    /\ calls = 0
    /\ pc = "idle"

Init ==
    /\ \E in \in Inputs :
          /\ input = in[1]
          /\ param = Join(in[1], in[2])
    /\ tokens = <<>>
    /\ geo = GeoParam(<<>>)
    /\ err = ""
    /\ attributes = EmptyMap
    /\ calls = 0
    /\ pc = "start"
    /\ RestIdle

\* the caller holds the GeoParam of Ok(geo), or nothing after Err
Returned(r) ==
    /\ err' = r.err
    /\ geo' = (IF r.err = "" THEN r.geo ELSE GeoParam(<<>>))
    /\ pc' = (IF r.err = "" THEN "parsed" ELSE "failed")

\* GeoParam::new(param)
new ==
    /\ pc = "start"
    /\ tokens' = Preprocess(param)
    /\ Returned(GeoParam_new(param))
    /\ UNCHANGED <<input, param, attributes, calls>>
    /\ UNCHANGED rest

\* the caller holds the map; self.pieces is what the loop left
Drained(r) ==
    /\ attributes' = r.attributes
    /\ geo' = [geo EXCEPT !.pieces = r.pieces]

\* geo.get_attr()
get_attr ==
    /\ pc = "parsed"
    /\ calls < MaxCalls
    /\ Drained(AttrLoop(geo.pieces, EmptyMap))
    /\ calls' = calls + 1
    /\ UNCHANGED <<input, param, tokens, err, pc>>
    /\ UNCHANGED rest

Next == new \/ get_attr

Spec == Init /\ [][Next]_vars

\* ------------------------------------------------------------------------
\* The derived quantities on their own: MiscMapSourceValues made from
\* attribute maps
\* ------------------------------------------------------------------------
\* scale values around every threshold of the table
ThresholdScales ==
    {NatToString(MMSCALE_THRESHOLDS[i][1] + d) :
        i \in 1..Len(MMSCALE_THRESHOLDS), d \in {0 - 1, 0, 1}}

ScaleStrings ==
    ThresholdScales
    \cup {"6999.99", "7000.5", "500000", "1000000", "100", "0", "-5", "-0",
          "6993", "6994", "13986", "13987", "10489.51", "3496.5", "3496.51",
          "409600000", "+5", "1562.5", ".5", "8103.08", "8103.09",
          "2394.26", "2394.27", "NaN", "inf", "-inf", "invalid", ""}

MiscAttrs ==
    {EmptyMap, Insert(EmptyMap, "type", "city")}
    \cup {Insert(EmptyMap, "scale", s) : s \in ScaleStrings}

InitMisc ==
    /\ ParserIdle
    /\ RestIdle

\* MiscMapSourceValues::new(r_pagename, r_title, region, attr)
NewMisc ==
    /\ Cardinality(made) < MaxMade
    /\ \E attr \in MiscAttrs :
          made' = made \cup {MiscMapSourceValues_new("Page", "Title", "/US", attr)}
    /\ UNCHANGED <<parser, dms, projector, page, group, cache>>

NextMisc == NewMisc

SpecMisc == InitMisc /\ [][NextMisc]_vars

\* ------------------------------------------------------------------------
\* Degree formatting on its own: decimal degrees given to make_minsec and
\* to MinSecResult::new
\* ------------------------------------------------------------------------
\* whole degrees and a rest in 1/Unit; no rest is halfway between two
\* millionths, where the f64 product may fall on either side
DegreeInputs ==
    {Num(neg, w * Unit + r) :
        neg \in BOOLEAN, w \in {0, 40, 74, 359},
        r \in {0, 1, 4, 5, 13, 72, 7200, 360000, 540000, 719990, 719999}}
    \cup {NaN, Inf(FALSE), Inf(TRUE)}

InitMinSec ==
    /\ ParserIdle
    /\ RestIdle

\* GeoParam::make_minsec(deg)
MakeMinsec ==
    /\ \E deg \in DegreeInputs :
          dms' = <<[of |-> deg, by |-> "make_minsec", result |-> make_minsec(deg)]>>
    /\ UNCHANGED <<parser, made, projector, page, group, cache>>

\* MinSecResult::new(deg)
NewMinSec ==
    /\ \E deg \in DegreeInputs :
          dms' = <<[of |-> deg, by |-> "new", result |-> MinSecResult_new(deg)]>>
    /\ UNCHANGED <<parser, made, projector, page, group, cache>>

NextMinSec == MakeMinsec \/ NewMinSec

SpecMinSec == InitMinSec /\ [][NextMinSec]_vars

\* ------------------------------------------------------------------------
\* UTM zones on their own: compute_utm_zone over latitudes and longitudes
\* around every band and exception
\* ------------------------------------------------------------------------
ZoneLatitudes ==
    {Hundredths(h) :
        h \in {-9700, -9600, -9050, -9000, -8800, -8001, -8000, -7201, -800,
               -1, 0, 799, 800, 4000, 5150, 5599, 5600, 6399, 6400, 7199,
               7200, 8399, 8400, 8800, 9000, 9050, 9599, 9600}}

ZoneLongitudes ==
    {Hundredths(h) :
        h \in {-36000, -18001, -18000, -17999, -17401, -17400, -7400, -13,
               -1, 0, 299, 300, 599, 600, 899, 900, 1199, 1200, 2099, 2100,
               3299, 3300, 4199, 4200, 17399, 17400, 17999, 18000, 18001,
               18300, 36000, 36300}}

InitZone ==
    /\ ParserIdle
    /\ RestIdle

\* TransverseMercator::compute_utm_zone(latitude, longitude), once
ComputeUtmZone ==
    /\ call = <<>>
    /\ \E latitude \in ZoneLatitudes, longitude \in ZoneLongitudes :
          call' = <<[fn |-> "compute_utm_zone",
                     latitude |-> latitude, longitude |-> longitude,
                     ret |-> compute_utm_zone(latitude, longitude)]>>
    /\ UNCHANGED <<parser, made, dms, tm, page, group, cache>>

NextZone == ComputeUtmZone

SpecZone == InitZone /\ [][NextZone]_vars

\* ------------------------------------------------------------------------
\* The projections on their own: calls on one TransverseMercator, in any
\* order
\* ------------------------------------------------------------------------
\* latitudes and longitudes on both sides of every limit
ProjectedLatitudes == {Hundredths(h) : h \in {-8001, -8000, 5150, 8400, 8401}}
ProjectedLongitudes == {Hundredths(h) : h \in {-18001, -18000, -13, 18000, 18001}}
SwissLatitudes == {Hundredths(h) : h \in {4549, 4550, 4695, 4800, 4801}}
SwissLongitudes == {Hundredths(h) : h \in {499, 500, 744, 1100, 1101}}

\* values the series may give: eastings and northings on both sides of
\* every edge of the OSGB36 grid
Eastings ==
    {Metres(TRUE, 1), Metres(FALSE, 0), Metres(FALSE, 9999999),
     Metres(FALSE, 53012345), Metres(FALSE, 69999999), Metres(FALSE, 70000000)}

Northings ==
    {Metres(TRUE, 1), Metres(FALSE, 0), Metres(FALSE, 18000750),
     Metres(FALSE, 49999999), Metres(FALSE, 50000000),
     Metres(FALSE, 129999999), Metres(FALSE, 130000000),
     Metres(FALSE, 570772649)}

\* an ordinary value on one axis at least
Series ==
    {[northing |-> Metres(FALSE, 18000750), easting |-> e] : e \in Eastings}
    \cup {[northing |-> n, easting |-> Metres(FALSE, 53012345)] : n \in Northings}

\* values the CH1903 polynomials may give
Polynomials ==
    {[northing |-> Metres(FALSE, 20014707), easting |-> Metres(FALSE, 60007237)],
     [northing |-> Metres(FALSE, 7532818), easting |-> Metres(FALSE, 49566341)]}

InitTM ==
    /\ ParserIdle
    /\ RestIdle

\* the call is over: self and what the caller sees of it; stale tells that
\* the object held a result of an earlier call
Called(fn, latitude, longitude, out) ==
    /\ tm' = out.tm
    /\ call' = <<[fn |-> fn, latitude |-> latitude, longitude |-> longitude,
                  ret |-> out.ret, wrote |-> out.wrote,
                  projected |-> out.projected,
                  stale |-> tm.result.northing # ZeroMetres
                            \/ tm.result.easting # ZeroMetres]>>

\* tm.lat_lon_zone_to_utm(latitude, longitude, "33")
LatLonZoneToUtm ==
    /\ \E latitude \in ProjectedLatitudes, longitude \in ProjectedLongitudes,
          series \in Series :
          Called("lat_lon_zone_to_utm", latitude, longitude,
                 lat_lon_zone_to_utm(tm, latitude, longitude, "33", series))
    /\ UNCHANGED <<parser, made, dms, page, group, cache>>

\* tm.lat_lon_to_osgb36(latitude, longitude)
LatLonToOsgb36 ==
    /\ \E latitude \in ProjectedLatitudes, longitude \in ProjectedLongitudes,
          series \in Series :
          Called("lat_lon_to_osgb36", latitude, longitude,
                 lat_lon_to_osgb36(tm, latitude, longitude, series))
    /\ UNCHANGED <<parser, made, dms, page, group, cache>>

\* tm.lat_lon_to_ch1903(latitude, longitude)
LatLonToCh1903 ==
    /\ \E latitude \in SwissLatitudes, longitude \in SwissLongitudes,
          polynomial \in Polynomials :
          Called("lat_lon_to_ch1903", latitude, longitude,
                 lat_lon_to_ch1903(tm, latitude, longitude, polynomial))
    /\ UNCHANGED <<parser, made, dms, page, group, cache>>

NextTM == LatLonZoneToUtm \/ LatLonToOsgb36 \/ LatLonToCh1903

SpecTM == InitTM /\ [][NextTM]_vars

\* ------------------------------------------------------------------------
\* CoordinateGroup::new on a parsed coordinate
\* ------------------------------------------------------------------------
\* latitudes and longitudes around 0, a degree and a direction each; the
\* longitudes are whole numbers of quarters
GroupLatitudes ==
    {"0_N", "0_S", "0.3_N", "0.3_S", "-0.3_N", "0.49_S", "0.5_S", "0.99_S",
     "1_S", "-1.5_N", "12.34_S"}

GroupLongitudes ==
    {"0_E", "0_W", "0.25_E", "0.25_W", "-0.25_E", "0.5_W", "0.75_W", "1_W",
     "-1.5_E", "2.5_W"}

GroupParams == {lat \o "_" \o lon : lat \in GroupLatitudes, lon \in GroupLongitudes}

InitGroup ==
    /\ ParserIdle
    /\ RestIdle

\* the caller holds the GeoParam of an Ok and the group made from it
GroupMade(r) ==
    /\ r.err = ""
    /\ group' = [p |-> r.geo, cg |-> CoordinateGroup_new(r.geo)]

\* CoordinateGroup::new(&GeoParam::new(params).unwrap())
CoordinateGroupNew ==
    /\ group = <<>>
    /\ \E params \in GroupParams : GroupMade(GeoParam_new(params))
    /\ UNCHANGED <<parser, made, dms, projector, page, cache>>

NextGroup == CoordinateGroupNew

SpecGroup == InitGroup /\ [][NextGroup]_vars

\* ------------------------------------------------------------------------
\* The page: MapSources::new, the page text, build_output
\* ------------------------------------------------------------------------
\* the calls of build_output on one MapSources
MaxBuilds == 2

\* New York, in 4 tokens
NewYork == "40_N_74_W"

\* coordinates of 8 and 6 tokens, London and Bern, and a point north of
\* every projection
OtherCoordinates == {"51_30_0_N_0_7_30_W", "46_45_N_7_30_E", "85_N_10_E"}

\* the attributes after the coordinates
PageTails ==
    {"", "_scale:50000", "_scale:1562.5_type:city", "_dim:5km",
     "_scale:50000_dim:5km", "_dim:5km_zoom:5", "_zoom:5_default:20000",
     "_zoom:18_type:city", "_default:20000_type:city",
     "_type:city_region:US-NY", "_type:landmark", "_dim:1.5km", "_dim:500m",
     "_dim:250", "_zoom:-2", "_default:-5"}

\* the params of the query; the last one is not a coordinate
PageParams ==
    {NewYork \o t : t \in PageTails}
    \cup {c \o t : c \in OtherCoordinates, t \in {"", "_zoom:18_type:city"}}
    \cup {"foo"}

PageLanguages == {"en"}

\* what the series of the three projections and the polynomials may give
PageFormulas ==
    {[utm |-> [northing |-> Metres(FALSE, 570772649),
               easting |-> Metres(FALSE, 69990237)],
      utm33 |-> [northing |-> Metres(FALSE, 581230451),
                 easting |-> Metres(TRUE, 43012345)],
      osgb36 |-> [northing |-> Metres(FALSE, 18000750),
                  easting |-> Metres(FALSE, 53012345)],
      ch1903 |-> [northing |-> Metres(FALSE, 20014707),
                  easting |-> Metres(FALSE, 60007237)]],
     [utm |-> [northing |-> Metres(FALSE, 450567150),
               easting |-> Metres(FALSE, 58395949)],
      utm33 |-> [northing |-> Metres(FALSE, 450567150),
                 easting |-> Metres(FALSE, 58395949)],
      osgb36 |-> [northing |-> Metres(TRUE, 120000000),
                  easting |-> Metres(FALSE, 70000049)],
      ch1903 |-> [northing |-> Metres(FALSE, 7532818),
                  easting |-> Metres(FALSE, 49566341)]]}

\* page texts: placeholders plain and quoted, a name that is no
\* placeholder, an unclosed brace
PageTexts ==
    {"1:{scale} &#123;title&#125; {foo}",
     "{pagename}|{ch1903easting}|{x}",
     "&#123;pagename&#125;{zoom {scale}{scale}"}

\* the name and the title of the page
PageNames ==
    {<<"Berlin", "Berlin">>, <<"{title}", "Mitte">>,
     <<"A {scale} map", "{pagename}">>}

InitPage ==
    /\ ParserIdle
    /\ RestIdle

\* the caller holds the object of an Ok; an Err leaves nothing
Constructed(r, f) ==
    IF r.err = ""
    THEN ms' = r.val /\ formulas' = f
    ELSE UNCHANGED <<ms, formulas>>

\* MapSources::new(params, language)
MapSourcesNew ==
    /\ ms = <<>>
    /\ \E params \in PageParams, language \in PageLanguages,
          f \in PageFormulas :
          Constructed(MapSources_new(params, language), f)
    /\ UNCHANGED <<parser, made, dms, projector, outputs, group, cache>>

\* map_sources.thetext = content, once, before the page is built
SetTheText ==
    /\ ms # <<>>
    /\ ms.thetext = ""
    /\ outputs = <<>>
    /\ \E content \in PageTexts : ms' = [ms EXCEPT !.thetext = content]
    /\ UNCHANGED <<parser, made, dms, projector, formulas, outputs, group, cache>>

\* the call is over: self, and what it computed and returned
BuildDone(b) ==
    /\ ms' = b.self
    /\ outputs' = Append(outputs, b)

\* the caller passes its pagename and its title, the same at every call
SameNames(names) ==
    IF outputs = <<>> THEN TRUE
    ELSE names[1] = outputs[1].r_pagename /\ names[2] = outputs[1].r_title

\* ms.build_output(r_pagename, r_title)
BuildOutput ==
    /\ ms # <<>>
    /\ Len(outputs) < MaxBuilds
    /\ \E names \in PageNames :
          /\ SameNames(names)
          /\ BuildDone(build_output(ms, names[1], names[2], formulas))
    /\ UNCHANGED <<parser, made, dms, projector, formulas, group, cache>>

NextPage == MapSourcesNew \/ SetTheText \/ BuildOutput

SpecPage == InitPage /\ [][NextPage]_vars

\* ------------------------------------------------------------------------
\* Vocabulary of the properties
\* ------------------------------------------------------------------------
Contains(s, c) == \E i \in 1..Len(s) : SubSeq(s, i, i) = c

\* the least position of c in s, 0 when s has no c
FirstIndex(s, c) ==
    IF Contains(s, c)
    THEN CHOOSE i \in 1..Len(s) :
            /\ SubSeq(s, i, i) = c
            /\ \A h \in 1..(i - 1) : SubSeq(s, h, h) # c
    ELSE 0

IsNS(s) == s \in {"N", "n", "S", "s"}
IsEW(s) == s \in {"E", "e", "W", "w"}

\* tokens[a], tokens[b] (counted from 0) form a valid direction pair
DirectionPair(t, a, b) == IsNS(t[a + 1]) /\ IsEW(t[b + 1])

\* the number of tokens of the first layout that matches the front of t,
\* 0 when none does
Layout(t) ==
    IF Contains(t[1], ";") THEN 1
    ELSE IF Len(t) >= 4 /\ DirectionPair(t, 1, 3) THEN 4
    ELSE IF Len(t) >= 6 /\ DirectionPair(t, 2, 5) THEN 6
    ELSE IF Len(t) >= 8 /\ DirectionPair(t, 3, 7) THEN 8
    ELSE 0

\* the tokens after the first coordinate, when one is recognised
AfterFirst == Drop(tokens, Layout(tokens))
\* a "to" follows the first coordinate
HasRange == AfterFirst # <<>> /\ AfterFirst[1] = "to"
\* the tokens the second coordinate is read from
SecondTokens == Tail(AfterFirst)

\* GeoParam::new has returned Ok and get_attr has not run yet
JustParsed == pc = "parsed" /\ calls = 0

\* C1: the coordinate is recognised at the front of the token stream in the
\* order lat;lon (1 token), degrees (4), degrees and minutes (6), degrees,
\* minutes and seconds (8); when no layout matches, new fails with
\* "Unrecognized format", and only then; on success exactly the tokens of the
\* first matching layout (and, for a range, the "to" and the tokens of the
\* second coordinate's first matching layout) are gone from the front and the
\* later tokens are left in order.
C1_LayoutPrecedence ==
    (pc # "start" /\ tokens # <<>>) =>
        /\ Layout(tokens) = 0 => err = "Unrecognized format"
        /\ (Layout(tokens) > 0 /\ ~HasRange) => err # "Unrecognized format"
        /\ (Layout(tokens) > 0 /\ err = "Unrecognized format") =>
              (HasRange /\ SecondTokens # <<>> /\ Layout(SecondTokens) = 0)
        /\ (JustParsed /\ ~HasRange) =>
              /\ geo.pieces = AfterFirst
              /\ Len(geo.coor) = (IF Layout(tokens) = 1 THEN 2 ELSE Layout(tokens))
        /\ (JustParsed /\ HasRange) =>
              /\ Layout(SecondTokens) > 0
              /\ geo.pieces = Drop(SecondTokens, Layout(SecondTokens))

\* a parameter whose tokens 1,3 and also 2,5 are direction pairs was read as
\* the four-token layout, and tokens are left over
C1_Witness ==
    /\ JustParsed
    /\ Len(tokens) >= 6
    /\ ~Contains(tokens[1], ";")
    /\ DirectionPair(tokens, 1, 3)
    /\ DirectionPair(tokens, 2, 5)
    /\ geo.pieces = Drop(tokens, 4)
    /\ geo.pieces # <<>>

\* n degrees as a count of 1/Unit
Degrees(n) == n * Unit

\* C2: every GeoParam a successful new returns has -90 <= latdeg <= 90 and
\* -360 <= londeg <= 360.
C2_DegreesWithinBounds ==
    pc = "parsed" =>
        /\ geo.latdeg.kind = "num"
        /\ geo.londeg.kind = "num"
        /\ Degrees(-90) <= Val(geo.latdeg) /\ Val(geo.latdeg) <= Degrees(90)
        /\ Degrees(-360) <= Val(geo.londeg) /\ Val(geo.londeg) <= Degrees(360)

\* ------------------------------------------------------------------------
\* The coordinate a token list denotes, read off the tokens
\* ------------------------------------------------------------------------
\* the degree, minute, second and letter tokens of the coordinate at the
\* front of t, whose layout is n; a missing part is "0", a missing letter
\* the positive direction
Parts(t, n) ==
    IF n = 1
    THEN [latd |-> Before(t[1], FirstIndex(t[1], ";")), latm |-> "0", lats |-> "0",
          ns |-> "N",
          lond |-> After(t[1], FirstIndex(t[1], ";")), lonm |-> "0", lons |-> "0",
          ew |-> "E"]
    ELSE IF n = 4
    THEN [latd |-> t[1], latm |-> "0", lats |-> "0", ns |-> t[2],
          lond |-> t[3], lonm |-> "0", lons |-> "0", ew |-> t[4]]
    ELSE IF n = 6
    THEN [latd |-> t[1], latm |-> t[2], lats |-> "0", ns |-> t[3],
          lond |-> t[4], lonm |-> t[5], lons |-> "0", ew |-> t[6]]
    ELSE [latd |-> t[1], latm |-> t[2], lats |-> t[3], ns |-> t[4],
          lond |-> t[5], lonm |-> t[6], lons |-> t[7], ew |-> t[8]]

\* the number a token in a numeric position stands for
Number(tok) == PieceValue(tok)

\* a minute or second value lies in [0, 60]
InMinSec(x) == x.kind = "num" /\ (x.mag = 0 \/ ~x.neg) /\ x.mag <= Degrees(60)

\* the magnitude of the angle d degrees, m minutes, s seconds, in 1/Unit
\* (m and s within [0, 60]); -1 when d is not finite
Magnitude(d, m, s) ==
    IF d.kind # "num" THEN -1
    ELSE d.mag + (m.mag \div 60) + (s.mag \div 3600)

LatMagnitude(P) == Magnitude(Number(P.latd), Number(P.latm), Number(P.lats))
LonMagnitude(P) == Magnitude(Number(P.lond), Number(P.lonm), Number(P.lons))

\* the coordinate is within all the bounds: minutes and seconds in [0, 60],
\* latitude magnitude at most 90, longitude magnitude at most 360
WithinBounds(P) ==
    /\ InMinSec(Number(P.latm)) /\ InMinSec(Number(P.lats))
    /\ InMinSec(Number(P.lonm)) /\ InMinSec(Number(P.lons))
    /\ Number(P.latd).kind = "num" /\ LatMagnitude(P) <= Degrees(90)
    /\ Number(P.lond).kind = "num" /\ LonMagnitude(P) <= Degrees(360)

FirstParts == Parts(tokens, Layout(tokens))
SecondParts == Parts(SecondTokens, Layout(SecondTokens))

\* the second coordinate of a range is reached and recognised
SecondRecognised ==
    /\ HasRange
    /\ WithinBounds(FirstParts)
    /\ SecondTokens # <<>>
    /\ Layout(SecondTokens) > 0

\* C3: a coordinate whose latitude magnitude exceeds 90, whose longitude
\* magnitude exceeds 360 or whose minutes or seconds lie outside [0, 60] is
\* rejected with "Out of range", as the first coordinate and as the second
\* one of a range, and a coordinate within these bounds is not rejected as
\* out of range.
C3_OutOfRangeRejected ==
    (pc # "start" /\ tokens # <<>> /\ Layout(tokens) > 0) =>
        /\ ~WithinBounds(FirstParts) => err = "Out of range"
        /\ (WithinBounds(FirstParts) /\ ~HasRange) => err = ""
        /\ (SecondRecognised /\ ~WithinBounds(SecondParts)) => err = "Out of range"
        /\ (SecondRecognised /\ WithinBounds(SecondParts)) => err = ""

Min(a, b) == IF a <= b THEN a ELSE b
Max(a, b) == IF a <= b THEN b ELSE a

\* the two coordinates of a parsed range, each converted on its own
FirstCoor == get_coor(GeoParam(tokens)).geo
SecondCoor == get_coor(GeoParam(SecondTokens)).geo

\* C4: after "to", the second coordinate is parsed and the result has
\* latdeg_min / latdeg_max = the smaller / larger of the two latitudes,
\* londeg_min / londeg_max likewise for the longitudes, latdeg and londeg at
\* the midpoints, min <= max on both axes and an empty coor.
C4_RangeBounds ==
    (JustParsed /\ HasRange) =>
        /\ Val(geo.latdeg_min) = Min(Val(FirstCoor.latdeg), Val(SecondCoor.latdeg))
        /\ Val(geo.latdeg_max) = Max(Val(FirstCoor.latdeg), Val(SecondCoor.latdeg))
        /\ Val(geo.londeg_min) = Min(Val(FirstCoor.londeg), Val(SecondCoor.londeg))
        /\ Val(geo.londeg_max) = Max(Val(FirstCoor.londeg), Val(SecondCoor.londeg))
        /\ 2 * Val(geo.latdeg) = Val(geo.latdeg_min) + Val(geo.latdeg_max)
        /\ 2 * Val(geo.londeg) = Val(geo.londeg_min) + Val(geo.londeg_max)
        /\ Val(geo.latdeg_min) <= Val(geo.latdeg_max)
        /\ Val(geo.londeg_min) <= Val(geo.londeg_max)
        /\ geo.coor = <<>>

\* a range whose second coordinate is the smaller in latitude and the larger
\* in longitude
C4_Witness ==
    /\ JustParsed
    /\ HasRange
    /\ Val(SecondCoor.latdeg) < Val(FirstCoor.latdeg)
    /\ Val(SecondCoor.londeg) > Val(FirstCoor.londeg)
    /\ Val(geo.latdeg_min) < Val(geo.latdeg) /\ Val(geo.latdeg) < Val(geo.latdeg_max)

IsSouth(ns) == ns \in {"S", "s"}
IsWest(ew) == ew \in {"W", "w"}

\* d plus (m + s/60)/60 with the sign of d, negated for a negative letter
SignedAngle(d, m, s, negated) ==
    IF d.neg # negated THEN 0 - Magnitude(d, m, s) ELSE Magnitude(d, m, s)

\* C5: the decimal value of a parsed coordinate is d plus (m + s/60)/60
\* carrying the sign of d, negated when the latitude letter is S or the
\* longitude letter is W in either case; "40 30 N 74 15 W" gives 40.5 and
\* -74.25.
C5_DecimalConversion ==
    (JustParsed /\ ~HasRange) =>
        /\ Val(geo.latdeg) = SignedAngle(Number(FirstParts.latd), Number(FirstParts.latm),
                                     Number(FirstParts.lats), IsSouth(FirstParts.ns))
        /\ Val(geo.londeg) = SignedAngle(Number(FirstParts.lond), Number(FirstParts.lonm),
                                     Number(FirstParts.lons), IsWest(FirstParts.ew))
        /\ tokens = <<"40", "30", "N", "74", "15", "W">> =>
              /\ 2 * Val(geo.latdeg) = Degrees(81)
              /\ 4 * Val(geo.londeg) = Degrees(-297)

\* a negative degree value with minutes and the letter S: the minutes moved
\* the value away from zero and the letter turned it positive
C5_Witness ==
    /\ JustParsed
    /\ ~HasRange
    /\ Number(FirstParts.latd).neg
    /\ Number(FirstParts.latd).mag > 0
    /\ Number(FirstParts.latm).mag > 0
    /\ IsSouth(FirstParts.ns)
    /\ Val(geo.latdeg) > Number(FirstParts.latd).mag

\* ------------------------------------------------------------------------
\* Attribute tokens, read off the tokens
\* ------------------------------------------------------------------------
\* a key:value token: its first ':' is at index >= 1 (counted from 0)
IsKeyValue(s) == FirstIndex(s, ":") >= 2
NameOf(s) == Before(s, FirstIndex(s, ":"))
RawValue(s) == After(s, FirstIndex(s, ":"))

\* the value has a '(' and its first ')' comes after its first '('
HasArg(v) == FirstIndex(v, "(") > 0 /\ FirstIndex(v, ")") > FirstIndex(v, "(")
\* the text before the first '(' and the text from there to the first ')'
BeforeParen(v) == Before(v, FirstIndex(v, "("))
InParens(v) == SubSeq(v, FirstIndex(v, "(") + 1, FirstIndex(v, ")") - 1)

\* the value a key:value token gives its name
ValueOf(s) == IF HasArg(RawValue(s)) THEN BeforeParen(RawValue(s)) ELSE RawValue(s)

\* the positions in p of the key:value tokens with this name
Occurrences(p, name) ==
    {i \in 1..Len(p) : IsKeyValue(p[i]) /\ NameOf(p[i]) = name}

\* the positions in p of the bare tokens that parse as a positive integer
PositiveBare(p) ==
    {i \in 1..Len(p) : ~IsKeyValue(p[i]) /\ parse_i32(p[i]).ok /\ parse_i32(p[i]).val > 0}

Least(S) == CHOOSE i \in S : \A j \in S : i <= j
Greatest(S) == CHOOSE i \in S : \A j \in S : j <= i

\* a step that is a call of get_attr
GetAttrStep == calls' = calls + 1

\* C6, as claimed: a name borne by more than one key:value token ends with
\* the value of the token drained first, the last occurrence in the source.
C6_LastInSourceWins ==
    [][GetAttrStep =>
        \A i \in 1..Len(geo.pieces) :
            (IsKeyValue(geo.pieces[i])
             /\ Cardinality(Occurrences(geo.pieces, NameOf(geo.pieces[i]))) > 1) =>
                attributes'[NameOf(geo.pieces[i])] =
                    ValueOf(geo.pieces[Greatest(Occurrences(geo.pieces, NameOf(geo.pieces[i])))])
    ]_vars

\* C6, amended: a name borne by more than one key:value token ends with the
\* value of the token drained last, the first occurrence in the source.
C6_FirstInSourceWins ==
    [][GetAttrStep =>
        \A i \in 1..Len(geo.pieces) :
            (IsKeyValue(geo.pieces[i])
             /\ Cardinality(Occurrences(geo.pieces, NameOf(geo.pieces[i]))) > 1) =>
                attributes'[NameOf(geo.pieces[i])] =
                    ValueOf(geo.pieces[Least(Occurrences(geo.pieces, NameOf(geo.pieces[i])))])
    ]_vars

\* get_attr has run once on tokens that bear one name twice with different
\* values, and the map holds the value of the earlier token
C6_Witness ==
    /\ calls = 1
    /\ ~HasRange
    /\ \E i, j \in 1..Len(AfterFirst) :
          /\ i < j
          /\ IsKeyValue(AfterFirst[i]) /\ IsKeyValue(AfterFirst[j])
          /\ NameOf(AfterFirst[i]) = NameOf(AfterFirst[j])
          /\ ValueOf(AfterFirst[i]) # ValueOf(AfterFirst[j])
          /\ Occurrences(AfterFirst, NameOf(AfterFirst[i])) = {i, j}
          /\ attributes[NameOf(AfterFirst[i])] = ValueOf(AfterFirst[i])

\* C7: without a key:value token named scale, the map has a scale entry
\* exactly when some bare token parses as a positive integer, and it is the
\* one drained first (the last in the source); bare tokens that are zero,
\* negative or no integers create none; a bare integer never replaces the
\* scale entry a key:value token has set.
C7_BareScale ==
    [][GetAttrStep =>
        LET p == geo.pieces
            keyed == Occurrences(p, "scale")
            bare == PositiveBare(p)
        IN  /\ (keyed = {} /\ bare = {}) => "scale" \notin DOMAIN attributes'
            /\ (keyed = {} /\ bare # {}) =>
                  /\ "scale" \in DOMAIN attributes'
                  /\ attributes'["scale"] = NatToString(parse_i32(p[Greatest(bare)]).val)
            /\ keyed # {} =>
                  /\ "scale" \in DOMAIN attributes'
                  /\ attributes'["scale"] = ValueOf(p[Least(keyed)])
    ]_vars

\* get_attr has run on tokens with two bare positive integers and kept the
\* later one
C7_Witness ==
    /\ calls = 1
    /\ ~HasRange
    /\ Occurrences(AfterFirst, "scale") = {}
    /\ Cardinality(PositiveBare(AfterFirst)) = 2
    /\ \E i \in PositiveBare(AfterFirst) :
          /\ i = Greatest(PositiveBare(AfterFirst))
          /\ attributes["scale"] = NatToString(parse_i32(AfterFirst[i]).val)
          /\ \E h \in PositiveBare(AfterFirst) :
                h < i /\ parse_i32(AfterFirst[h]).val # parse_i32(AfterFirst[i]).val

\* the value has a '(' that is followed later by a ')'
HasParens(v) ==
    \E j, k \in 1..Len(v) : j < k /\ SubSeq(v, j, j) = "(" /\ SubSeq(v, k, k) = ")"

\* the position of the first ')' of v after position j
CloseAfter(v, j) == j + FirstIndex(After(v, j), ")")

\* the name borne by the token at position i is borne by no other token of p
SoleBearer(p, i) == Occurrences(p, NameOf(p[i])) = {i}

\* C8, as claimed: a token name:value(arg), whose value has a '(' followed
\* later by a ')', gives name -> the text before '(' and arg:name -> the text
\* between the parentheses; a token name:value without such parentheses
\* gives only name -> value; a token with its ':' at index 0 gives no entry.
C8_ArgAnyParens ==
    [][GetAttrStep =>
        \A i \in 1..Len(geo.pieces) :
            LET s == geo.pieces[i]
                v == RawValue(s)
            IN  /\ (IsKeyValue(s) /\ SoleBearer(geo.pieces, i) /\ HasParens(v)) =>
                      /\ NameOf(s) \in DOMAIN attributes'
                      /\ attributes'[NameOf(s)] = BeforeParen(v)
                      /\ ("arg:" \o NameOf(s)) \in DOMAIN attributes'
                      /\ attributes'["arg:" \o NameOf(s)] =
                            SubSeq(v, FirstIndex(v, "(") + 1,
                                   CloseAfter(v, FirstIndex(v, "(")) - 1)
                /\ (IsKeyValue(s) /\ SoleBearer(geo.pieces, i) /\ ~HasParens(v)) =>
                      /\ NameOf(s) \in DOMAIN attributes'
                      /\ attributes'[NameOf(s)] = v
                      /\ ("arg:" \o NameOf(s)) \notin DOMAIN attributes'
                /\ FirstIndex(s, ":") = 1 =>
                      /\ "" \notin DOMAIN attributes'
                      /\ After(s, 1) \notin DOMAIN attributes'
    ]_vars

\* the keys the token s accounts for
KeysOf(s) ==
    IF IsKeyValue(s)
    THEN {NameOf(s)} \cup (IF HasArg(RawValue(s)) THEN {"arg:" \o NameOf(s)} ELSE {})
    ELSE IF parse_i32(s).ok /\ parse_i32(s).val > 0 THEN {"scale"}
    ELSE {}

\* C8, amended: a token name:value(arg), the first ')' of whose value comes
\* after its first '(', gives exactly name -> the text before that '(' and
\* arg:name -> the text between the two; any other token name:value gives only
\* name -> value; a token with its ':' at index 0 gives no entry; the map has
\* no key that no token accounts for.
C8_ArgFirstParens ==
    [][GetAttrStep =>
        /\ DOMAIN attributes' = UNION {KeysOf(geo.pieces[i]) : i \in 1..Len(geo.pieces)}
        /\ \A i \in 1..Len(geo.pieces) :
            LET s == geo.pieces[i]
                v == RawValue(s)
            IN  /\ (IsKeyValue(s) /\ SoleBearer(geo.pieces, i) /\ HasArg(v)) =>
                      /\ attributes'[NameOf(s)] = BeforeParen(v)
                      /\ attributes'["arg:" \o NameOf(s)] = InParens(v)
                /\ (IsKeyValue(s) /\ SoleBearer(geo.pieces, i) /\ ~HasArg(v)) =>
                      /\ attributes'[NameOf(s)] = v
                      /\ ("arg:" \o NameOf(s)) \notin DOMAIN attributes'
                /\ FirstIndex(s, ":") = 1 =>
                      /\ "" \notin DOMAIN attributes'
                      /\ After(s, 1) \notin DOMAIN attributes'
    ]_vars

\* get_attr has run on a token with an argument and on one without: the
\* first gave two entries, the second one
C8_Witness ==
    /\ calls = 1
    /\ ~HasRange
    /\ AfterFirst = <<"type:town(7000000)", "scale:5">>
    /\ attributes = [k \in {"type", "arg:type", "scale"} |->
                        IF k = "type" THEN "town"
                        ELSE IF k = "arg:type" THEN "7000000" ELSE "5"]

\* what preprocessing makes of a token
Expected(tok) == IF tok \in {"O", "o"} THEN "E" ELSE tok

\* q is what is left of t after some tokens are taken from its front
IsSuffix(q, t) == \E n \in 0..Len(t) : q = Drop(t, n)

\* C9: preprocessing turns a token into "E" exactly when the whole token is
\* "O" or "o"; every other token reaches the coordinate recognition, and what
\* is left for the attribute extraction, character for character unchanged.
C9_OnlyStandaloneO ==
    pc # "start" =>
        /\ Len(tokens) = Len(input)
        /\ \A i \in 1..Len(input) : tokens[i] = Expected(input[i])
        /\ \A i \in 1..Len(input) : tokens[i] # input[i] <=> input[i] \in {"O", "o"}
        /\ JustParsed =>
              /\ IsSuffix(geo.pieces, [i \in 1..Len(input) |-> Expected(input[i])])
              /\ \A i \in 1..Len(geo.pieces) :
                    geo.pieces[i] = Expected(input[Len(input) - Len(geo.pieces) + i])

\* a standalone O became E while region:JO and region:CA-ON were left alone
C9_Witness ==
    /\ JustParsed
    /\ \E i \in 1..Len(input) : input[i] = "O" /\ tokens[i] = "E"
    /\ \E i \in 1..Len(geo.pieces) : geo.pieces[i] \in {"region:JO", "region:CA-ON"}
    /\ \E i \in 1..Len(geo.pieces) : geo.pieces[i] = "E"

\* C10: get_attr is one destructive pass: when it returns, pieces is empty;
\* a call after the first returns an empty map; latdeg, londeg, the min/max
\* bounds and coor are as before the call.
C10_SingleDestructivePass ==
    [][GetAttrStep =>
        /\ geo'.pieces = <<>>
        /\ calls >= 1 => attributes' = EmptyMap
        /\ geo'.latdeg = geo.latdeg /\ geo'.londeg = geo.londeg
        /\ geo'.latdeg_min = geo.latdeg_min /\ geo'.latdeg_max = geo.latdeg_max
        /\ geo'.londeg_min = geo.londeg_min /\ geo'.londeg_max = geo.londeg_max
        /\ geo'.coor = geo.coor
    ]_vars

\* the second call on a parameter with attribute tokens returned nothing
C10_Witness ==
    /\ calls = 2
    /\ ~HasRange
    /\ \E i \in 1..Len(AfterFirst) : IsKeyValue(AfterFirst[i])
    /\ geo.pieces = <<>>
    /\ attributes = EmptyMap
    /\ Len(geo.coor) = 4

\* ------------------------------------------------------------------------
\* Vocabulary of the properties of the derived quantities
\* ------------------------------------------------------------------------
\* the scale of m is a finite number, and one that is not below zero
FiniteScale(m) == m.scale_float.kind = "num"
NonNegativeScale(m) ==
    FiniteScale(m) /\ (~m.scale_float.neg \/ (m.scale_float.whole = 0 /\ m.scale_float.cents = 0))

\* the scale of m in hundredths, split so that no product leaves the
\* integers: 100 * (143 * scale - 1000000 * t), as 1000000 = 143 * 6993 + 1
Excess(m, t) ==
    143 * (100 * (m.scale_float.whole - 6993 * t) + m.scale_float.cents) - 100 * t

\* a <= b for two scales that are numbers
ScaleLe(a, b) ==
    IF a.neg /\ ~b.neg THEN TRUE
    ELSE IF ~a.neg /\ b.neg THEN a.whole = 0 /\ a.cents = 0 /\ b.whole = 0 /\ b.cents = 0
    ELSE IF ~a.neg THEN a.whole < b.whole \/ (a.whole = b.whole /\ a.cents <= b.cents)
    ELSE b.whole < a.whole \/ (a.whole = b.whole /\ b.cents <= a.cents)

\* the scale of m is the integer n
ScaleIs(m, n) ==
    FiniteScale(m) /\ ~m.scale_float.neg /\ m.scale_float.whole = n /\ m.scale_float.cents = 0

\* the threshold table as the specification lists it
ThresholdTable ==
    {<<30000000, 40000000>>, <<14000000, 20000000>>, <<6300000, 10000000>>,
     <<2800000, 4000000>>, <<1400000, 2000000>>, <<700000, 1000000>>,
     <<310000, 500000>>, <<140000, 200000>>, <<70000, 100000>>,
     <<35000, 50000>>, <<15000, 25000>>, <<7000, 10000>>}

\* the entries whose threshold the scale of m meets or exceeds
Met(m) ==
    {p \in ThresholdTable :
        /\ NonNegativeScale(m)
        /\ m.scale_float.whole >= p[1]}

\* the first such entry of the descending table: the one of the greatest
\* threshold
FirstMet(m) == CHOOSE p \in Met(m) : \A q \in Met(m) : q[1] <= p[1]

\* C12: get_mmscale(s) is the value paired with the first entry of the
\* descending threshold table whose threshold s meets or exceeds, and 5000
\* when s is below every threshold; it is one of the 13 fixed values, it
\* is non-decreasing in s, get_mmscale(7000) = 10000 and
\* get_mmscale(6999) = 5000.
C12_MmscaleTable ==
    /\ \A m \in made :
          /\ FiniteScale(m) =>
                m.mmscale = (IF Met(m) = {} THEN 5000 ELSE FirstMet(m)[2])
          /\ m.mmscale \in {p[2] : p \in ThresholdTable} \cup {5000}
          /\ ScaleIs(m, 7000) => m.mmscale = 10000
          /\ ScaleIs(m, 6999) => m.mmscale = 5000
    /\ \A m, n \in made :
          (FiniteScale(m) /\ FiniteScale(n) /\ ScaleLe(m.scale_float, n.scale_float))
             => m.mmscale <= n.mmscale

\* both sides of the lowest threshold have been derived
C12_Witness ==
    /\ \E m \in made : ScaleIs(m, 7000) /\ m.mmscale = 10000
    /\ \E m \in made : ScaleIs(m, 6999) /\ m.mmscale = 5000

\* C13 as stated: the altitude is max(1, round(scale * 143 / 1000000)),
\* the scaled value rounded to the nearest integer and never below 1.
C13_AltitudeRounded ==
    \A m \in made :
        NonNegativeScale(m) =>
            /\ m.altitude >= 1
            /\ m.altitude > 1 => Excess(m, m.altitude) + 50000000 >= 0
            /\ Excess(m, m.altitude) - 50000000 < 0

\* C13 amended: the altitude is max(1, trunc(scale * 143 / 1000000)), the
\* scaled value cut to its integer part and never below 1.
C13_AltitudeTruncated ==
    \A m \in made :
        /\ NonNegativeScale(m) =>
              /\ m.altitude >= 1
              /\ m.altitude > 1 => Excess(m, m.altitude) >= 0
              /\ Excess(m, m.altitude + 1) < 0
        /\ (FiniteScale(m) /\ ~NonNegativeScale(m)) => m.altitude = 1

\* scale 500000 gives 71.5, cut to 71
C13_Witness == \E m \in made : ScaleIs(m, 500000) /\ m.altitude = 71

\* ------------------------------------------------------------------------
\* Vocabulary of the properties of the degree formatting
\* ------------------------------------------------------------------------
\* a and b differ by at most half of den, in units of 1 / (2 * den)
WithinHalf(a, b, den) == (a - b) * 2 <= den /\ (b - a) * 2 <= den

\* n millionths are the degrees d rounded to 1e-6: the whole degrees
\* agree and the rest of d, 25/18 millionths per unit, is at most half a
\* millionth away
RoundedDegrees(d, n) ==
    \E w \in {d.mag \div Unit, d.mag \div Unit + 1} :
        /\ n >= w * 1000000 - 1
        /\ n - w * 1000000 <= 1000000
        /\ WithinHalf(18 * (n - w * 1000000), 25 * (d.mag - w * Unit), 18)

\* C20: make_minsec / MinSecResult::new returns deg equal to the input
\* rounded to 1e-6, min equal to 60 times the fractional part of |deg|
\* rounded to 1e-4 with 0 <= min < 60, sec equal to 60 times the
\* fractional part of that min rounded to 1e-2 with 0 <= sec < 60, and
\* the letters N/E when the unrounded input is >= 0 and S/W otherwise.
C20_MinSecFields ==
    \A i \in 1..Len(dms) :
        dms[i].of.kind = "num" =>
            /\ dms[i].result.deg.kind = "num"
            /\ dms[i].result.deg.neg = dms[i].of.neg
            /\ RoundedDegrees(dms[i].of, dms[i].result.deg.n)
            /\ dms[i].result.min.kind = "num"
            /\ ~dms[i].result.min.neg
            /\ WithinHalf(100 * dms[i].result.min.n,
                          60 * (dms[i].result.deg.n % 1000000), 100)
            /\ dms[i].result.min.n < 60 * 10000
            /\ dms[i].result.sec.kind = "num"
            /\ ~dms[i].result.sec.neg
            /\ WithinHalf(100 * dms[i].result.sec.n,
                          60 * (dms[i].result.min.n % 10000), 100)
            /\ dms[i].result.sec.n < 60 * 100
            /\ dms[i].result.ns = (IF ~dms[i].of.neg \/ dms[i].of.mag = 0 THEN "N" ELSE "S")
            /\ dms[i].result.ew = (IF ~dms[i].of.neg \/ dms[i].of.mag = 0 THEN "E" ELSE "W")

\* a negative value whose degrees, minutes and seconds are all rounded:
\* -359.9999986... is -359.999999, 59.9999 minutes and 59.99 seconds
C20_Witness ==
    \E i \in 1..Len(dms) :
        /\ dms[i].of = Num(TRUE, 359 * Unit + 719999)
        /\ dms[i].result.deg = Steps(TRUE, 359999999)
        /\ dms[i].result.min = Steps(FALSE, 599999)
        /\ dms[i].result.sec = Steps(FALSE, 5999)
        /\ dms[i].result.ns = "S"

\* ------------------------------------------------------------------------
\* Vocabulary of the projector's properties
\* ------------------------------------------------------------------------
\* the last call was one of fn
LastCall(fn) == call # <<>> /\ call[1].fn = fn

\* an angle lies in [lo, hi] or in [lo, hi), the limits in hundredths
Within(x, lo, hi) ==
    x.kind = "num" /\ lo * Hundredth <= Val(x) /\ Val(x) <= hi * Hundredth

Below(x, lo, hi) ==
    x.kind = "num" /\ lo * Hundredth <= Val(x) /\ Val(x) < hi * Hundredth

\* the longitude brought into [-180, 180) by whole turns
Wrapped(x) ==
    CHOOSE y \in {FromVal(Val(x) - k * 360 * Unit) : k \in -2..2} :
        Below(y, -18000, 18000)

\* the 6-degree band of a wrapped longitude, counted from 1 at -180
SixDegreeBand(y) ==
    CHOOSE z \in 1..60 : Below(y, (z - 31) * 600, (z - 30) * 600)

\* the 8-degree row of a latitude, counted from 0 at -96
EightDegreeRow(x) ==
    CHOOSE i \in -1..24 : Below(x, (i - 12) * 800, (i - 11) * 800)

ZoneNumberOf(lat, y) ==
    IF Below(lat, 5600, 6400) /\ Below(y, 300, 1200) THEN 32
    ELSE IF Below(lat, 7200, 8400) /\ Below(y, 0, 900) THEN 31
    ELSE IF Below(lat, 7200, 8400) /\ Below(y, 900, 2100) THEN 33
    ELSE IF Below(lat, 7200, 8400) /\ Below(y, 2100, 3300) THEN 35
    ELSE IF Below(lat, 7200, 8400) /\ Below(y, 3300, 4200) THEN 37
    ELSE SixDegreeBand(y)

\* the character at a 0-based index
CharAt(s, i) == SubSeq(s, i + 1, i + 1)

\* C14: compute_utm_zone returns the zone number of the longitude wrapped
\* into [-180, 180) -- its 6-degree band counted from 1, but 32 over
\* Norway and 31, 33, 35 or 37 over Svalbard -- followed by the letter at
\* index floor((lat + 96) / 8) of the 24 letters, wherever that index lies
\* in the table; (40, -74) gives 18 and (0, 0) gives 31.
C14_UtmZone ==
    LastCall("compute_utm_zone") =>
        /\ EightDegreeRow(call[1].latitude) \in 0..23 =>
              call[1].ret =
                  NatToString(ZoneNumberOf(call[1].latitude,
                                           Wrapped(call[1].longitude)))
                  \o CharAt("CCCDEFGHJKLMNPQRSTUVWXXX",
                            EightDegreeRow(call[1].latitude))
        /\ (call[1].latitude = F(40) /\ call[1].longitude = F(-74)) =>
              SubSeq(call[1].ret, 1, 2) = "18"
        /\ (call[1].latitude = F(0) /\ call[1].longitude = F(0)) =>
              SubSeq(call[1].ret, 1, 2) = "31"

\* a longitude of 363 degrees at latitude 56 falls under the exception for
\* Norway
C14_Witness ==
    /\ LastCall("compute_utm_zone")
    /\ call[1].latitude = F(56)
    /\ call[1].longitude = F(363)
    /\ call[1].ret = "32V"

\* metres as a signed count of centimetres
SignedCm(x) == IF x.neg THEN 0 - x.cm ELSE x.cm

\* the 100-km cell of a coordinate
Cell(x) == SignedCm(x) \div 10000000

\* the whole metres of a coordinate within its cell, as five digits
FiveDigits(x) ==
    CharAt(Digits, (x.cm \div 1000000) % 10)
    \o CharAt(Digits, (x.cm \div 100000) % 10)
    \o CharAt(Digits, (x.cm \div 10000) % 10)
    \o CharAt(Digits, (x.cm \div 1000) % 10)
    \o CharAt(Digits, (x.cm \div 100) % 10)

FirstLetterIndex(gx, gy) == (17 - 5 * (gy \div 5)) + (gx \div 5)
SecondLetterIndex(gx, gy) == (20 - 5 * (gy % 5)) + (gx % 5)

C16_Ch1903Domain ==
    LastCall("lat_lon_to_ch1903") =>
        /\ call[1].ret <=> (Within(call[1].latitude, 4550, 4800)
                            /\ Within(call[1].longitude, 500, 1100))
        /\ ~call[1].ret =>
              /\ tm.result.northing = ZeroMetres
              /\ tm.result.easting = ZeroMetres

\* a failure on an object that held the result of an earlier call
C16_Witness ==
    /\ LastCall("lat_lon_to_ch1903")
    /\ call[1].stale
    /\ ~call[1].ret
    /\ call[1].latitude = Hundredths(4801)
    /\ tm.result.northing = ZeroMetres
    /\ tm.result.easting = ZeroMetres

\* the step is a call that runs project_to_tm
ProjectionStep ==
    /\ call' # <<>>
    /\ call'[1].fn \in {"lat_lon_zone_to_utm", "lat_lon_to_osgb36"}

\* C17: project_to_tm fails whenever the longitude is outside [-180, 180]
\* or the latitude outside [-80, 84], and then northing and easting keep
\* their values; inside the domain it succeeds and assigns both.
C17_ProjectToTm ==
    [][ProjectionStep =>
          IF Within(call'[1].latitude, -8000, 8400)
             /\ Within(call'[1].longitude, -18000, 18000)
          THEN /\ call'[1].projected
               /\ call'[1].wrote = {"northing", "easting"}
               /\ [northing |-> tm'.result.northing,
                   easting |-> tm'.result.easting] \in Series
          ELSE /\ ~call'[1].projected
               /\ call'[1].wrote = {}
               /\ tm'.result.northing = tm.result.northing
               /\ tm'.result.easting = tm.result.easting]_vars

\* a latitude of 84.01 on an object that holds an earlier result: the call
\* fails and the result is still there
C17_Witness ==
    /\ LastCall("lat_lon_zone_to_utm")
    /\ call[1].latitude = Hundredths(8401)
    /\ call[1].ret = FALSE
    /\ call[1].stale
    /\ tm.result.northing # ZeroMetres

\* ------------------------------------------------------------------------
\* The page
\* ------------------------------------------------------------------------
\* the replacement of a placeholder in what a call of build_output left
KeyIndex(key) == CHOOSE i \in DOMAIN SearchKeys : SearchKeys[i] = key
Token(b, key) == b.replace[KeyIndex(key)]

\* a text that reads as a finite number above 0
PositiveParsed(parsed) ==
    /\ parsed.ok
    /\ parsed.val.kind = "num"
    /\ ~parsed.val.neg
    /\ (parsed.val.whole > 0 \/ parsed.val.cents > 0)

PositiveNumber(text) == PositiveParsed(parse_f64_wide(text))

\* the metres of a dim, km written out
DimMetres(dim) == ReplaceStr(ReplaceStr(dim, "km", "000"), "m", "")

\* the first source of the scale, in the order scale, dim, zoom, default,
\* type, precision, that the attributes make applicable
FirstSource(got) ==
    IF "scale" \in DOMAIN got /\ PositiveNumber(got["scale"]) THEN "scale"
    ELSE IF "dim" \in DOMAIN got /\ PositiveNumber(DimMetres(got["dim"]))
         THEN "dim"
    ELSE IF "zoom" \in DOMAIN got /\ parse_f64_wide(got["zoom"]).ok
            /\ parse_f64_wide(got["zoom"]).val.kind = "num"
         THEN "zoom"
    ELSE IF "default" \in DOMAIN got /\ parse_i32(got["default"]).ok
            /\ parse_i32(got["default"]).val > 0
         THEN "default"
    ELSE IF "type" \in DOMAIN got /\ got["type"] \in DOMAIN DefaultScaleTable
         THEN "type"
    ELSE "precision"

\* the scale a source gives
SourceScale(got, coor, source) ==
    CASE source = "scale" -> wide_to_string(parse_f64_wide(got["scale"]).val)
      [] source = "dim" ->
            wide_to_string(DivTenth(parse_f64_wide(DimMetres(got["dim"])).val))
      [] source = "zoom" ->
            wide_to_string(ZoomScale(parse_f64_wide(got["zoom"]).val))
      [] source = "default" -> I32ToString(parse_i32(got["default"]).val)
      [] source = "type" -> I32ToString(DefaultScaleTable[got["type"]])
      [] source = "precision" ->
            (IF Len(coor) = 8 THEN "10000"
             ELSE IF Len(coor) = 6 THEN "100000" ELSE "300000")

\* C11: build_output takes the scale from the first applicable source in
\* the order scale, dim, zoom, default, type table, coordinate precision:
\* the {scale} token is the scale of that source, and no source after it
\* determines the token.
C11_ScalePrecedence ==
    \A i \in DOMAIN outputs :
        Token(outputs[i], "scale")
            = SourceScale(outputs[i].got, ms.p.coor, FirstSource(outputs[i].got))

\* the coordinates of the page lie outside the domain of project_to_tm, or
\* outside the one of CH1903
OutsideTM(p) ==
    ~(Within(p.latdeg, -8000, 8400) /\ Within(p.londeg, -18000, 18000))

OutsideCH1903(p) ==
    ~(Within(p.latdeg, 4550, 4800) /\ Within(p.londeg, 500, 1100))

AllEmpty(b, keys) == \A key \in keys : Token(b, key) = ""

\* C18: for coordinates outside the domain of a projection, the tokens of
\* that projection in the replacement list are the empty string, never a
\* number such as 0.
C18_NoValueTokens ==
    \A i \in DOMAIN outputs :
        /\ OutsideTM(ms.p) =>
              AllEmpty(outputs[i],
                       {"utmnorthing", "utmeasting", "utm33northing",
                        "utm33easting", "osgb36ref", "osgb36northing",
                        "osgb36easting"})
        /\ OutsideCH1903(ms.p) =>
              AllEmpty(outputs[i], {"ch1903northing", "ch1903easting"})

\* a text begins with another
StartsWith(text, prefix) ==
    Len(text) >= Len(prefix) /\ SubSeq(text, 1, Len(prefix)) = prefix

\* the two forms of the placeholder of a key
RawForm(key) == "{" \o key \o "}"
EscapedForm(key) == "&#123;" \o key \o "&#125;"

\* the known placeholders a text begins with: none or one
PlaceholderAt(text) ==
    IF SubSeq(text, 1, 1) \notin {"{", "&"} THEN {}
    ELSE {k \in DOMAIN SearchKeys :
             StartsWith(text, RawForm(SearchKeys[k]))
             \/ StartsWith(text, EscapedForm(SearchKeys[k]))}

\* the length of the placeholder of the key k a text begins with
FormLen(text, k) ==
    IF StartsWith(text, RawForm(SearchKeys[k]))
    THEN Len(RawForm(SearchKeys[k]))
    ELSE Len(EscapedForm(SearchKeys[k]))

\* a text with every known placeholder of it, in either form, replaced by
\* the value of its key, and all the rest verbatim
RECURSIVE Substituted(_, _)
SubstitutedAt(text, values, k) ==
    values[k] \o Substituted(SubSeq(text, FormLen(text, k) + 1, Len(text)), values)

Substituted(text, values) ==
    IF text = "" THEN ""
    ELSE IF PlaceholderAt(text) = {}
         THEN SubSeq(text, 1, 1) \o Substituted(SubSeq(text, 2, Len(text)), values)
    ELSE SubstitutedAt(text, values, CHOOSE k \in PlaceholderAt(text) : TRUE)

\* C19: the text build_output returns is the page text with every
\* occurrence of every known placeholder, {key} or &#123;key&#125;, replaced
\* by the value of that key, the i-th pattern by the i-th replacement, and
\* every other text in braces verbatim.
C19_EveryPlaceholder ==
    \A i \in DOMAIN outputs :
        outputs[i].ret = Substituted(outputs[i].self.thetext, outputs[i].replace)

\* ------------------------------------------------------------------------
\* The coordinate group
\* ------------------------------------------------------------------------
\* a value below 0
BelowZero(x) == x.kind = "num" /\ Val(x) < 0

\* the decimal rendering of a whole number
WholeText(i) == IF i < 0 THEN "-" \o NatToString(0 - i) ELSE NatToString(i)

\* the degrees of a MinSecResult cut to a whole number, and rounded to the
\* nearest one, halves away from 0
CutDegree(deg) ==
    IF deg.neg THEN 0 - (deg.n \div 1000000) ELSE deg.n \div 1000000

NearestDegree(deg) ==
    IF deg.neg THEN 0 - ((deg.n + 500000) \div 1000000)
    ELSE (deg.n + 500000) \div 1000000

\* the text the rule gives for a parsed value and its whole degree
SmallDegreeText(parsed, whole) ==
    IF BelowZero(parsed) /\ whole = 0 THEN "-0" ELSE WholeText(whole)

\* C21: latdegint and londegint are "-0" exactly when the parsed value is
\* negative and its degree truncates to 0, and else the decimal rendering
\* of the truncated degree; latdeground and londeground follow the same
\* rule with the degree rounded to the nearest integer.
C21_SmallDegrees ==
    group # <<>> =>
        /\ group.cg.latdegint
              = SmallDegreeText(group.p.latdeg, CutDegree(group.cg.lat.deg))
        /\ group.cg.londegint
              = SmallDegreeText(group.p.londeg, CutDegree(group.cg.lon.deg))
        /\ group.cg.latdeground
              = SmallDegreeText(group.p.latdeg, NearestDegree(group.cg.lat.deg))
        /\ group.cg.londeground
              = SmallDegreeText(group.p.londeg, NearestDegree(group.cg.lon.deg))

\* ------------------------------------------------------------------------
\* Degrees, minutes and seconds, formatted and parsed again
\* ------------------------------------------------------------------------
\* the whole degrees, the whole minutes and the seconds of a MinSecResult,
\* as the page shows them
DmsText(result) ==
    NatToString(result.deg.n \div 1000000) \o "_"
    \o NatToString(result.min.n \div 10000) \o "_"
    \o StepsToString(result.sec, 2)

\* a coordinate with the MinSecResult as its latitude, or as its longitude
AsLatitude(result) == DmsText(result) \o "_" \o result.ns \o "_0_0_0_E"
AsLongitude(result) == "0_0_0_N_" \o DmsText(result) \o "_" \o result.ew

\* the distance of two values, in 1/Unit degrees
Distance(x, y) ==
    IF Val(x) < Val(y) THEN Val(y) - Val(x) ELSE Val(x) - Val(y)

\* the values make_minsec was given that are degrees of a latitude, and of
\* a longitude
IsLatitude(x) == x.kind = "num" /\ x.mag <= 90 * Unit
IsLongitude(x) == x.kind = "num" /\ x.mag <= 360 * Unit

\* the value read back is no further than tolerance / Unit degrees from
\* the value formatted
ReadBack(i, tolerance) ==
    /\ IsLatitude(dms[i].of) =>
          /\ GeoParam_new(AsLatitude(dms[i].result)).err = ""
          /\ Distance(GeoParam_new(AsLatitude(dms[i].result)).geo.latdeg,
                      dms[i].of) <= tolerance
    /\ IsLongitude(dms[i].of) =>
          /\ GeoParam_new(AsLongitude(dms[i].result)).err = ""
          /\ Distance(GeoParam_new(AsLongitude(dms[i].result)).geo.londeg,
                      dms[i].of) <= tolerance

\* C22, as stated: a valid value formatted by make_minsec and parsed again
\* in the degree, minute, second layout is the value to within 1e-6 degree.
C22_WithinMillionth ==
    \A i \in 1..Len(dms) : ReadBack(i, Unit \div 1000000)

\* C22, amended: the value parsed again is the value to within 1e-2 second
\* of arc, the precision of the seconds written.
C22_WithinHundredthSecond ==
    \A i \in 1..Len(dms) : ReadBack(i, Unit \div 360000)

\* 74 degrees and 13/720000 formatted: 74 0 0.07 is read back, 1/720000
\* degree off
C22_Witness ==
    /\ Len(dms) = 1
    /\ dms[1].of = Num(TRUE, 74 * Unit + 13)
    /\ dms[1].result.ns = "S"
    /\ GeoParam_new(AsLatitude(dms[1].result)).err = ""
    /\ Distance(GeoParam_new(AsLatitude(dms[1].result)).geo.latdeg, dms[1].of) = 1

\* ------------------------------------------------------------------------
\* The page: values, scales and repeated calls
\* ------------------------------------------------------------------------
\* a text holds another
RECURSIVE Holds(_, _)
Holds(text, part) ==
    IF Len(text) < Len(part) THEN FALSE
    ELSE StartsWith(text, part) \/ Holds(SubSeq(text, 2, Len(text)), part)

\* the page text holds the placeholder of a key, in one of its forms
Placed(text, key) == Holds(text, RawForm(key)) \/ Holds(text, EscapedForm(key))

\* C23: the replacement is simultaneous: the text that entered the output
\* as the value of a placeholder is never replaced by a later step, so the
\* value of every placeholder of the page text stands in the text returned.
C23_ValuesStand ==
    \A i \in DOMAIN outputs :
        \A k \in DOMAIN SearchKeys :
            Placed(outputs[i].self.thetext, SearchKeys[k])
                => Holds(outputs[i].ret, outputs[i].replace[k])

\* ---------------------------------------------------------------------
\* The dim attribute
\* ---------------------------------------------------------------------

EndsWith(s, e) ==
    Len(s) >= Len(e) /\ SubSeq(s, Len(s) - Len(e) + 1, Len(s)) = e

\* the number n of a dim written 'n km', 'n m' or 'n'
DimNumber(dim) ==
    IF EndsWith(dim, "km") THEN SubSeq(dim, 1, Len(dim) - 2)
    ELSE IF EndsWith(dim, "m") THEN SubSeq(dim, 1, Len(dim) - 1)
    ELSE dim

\* the metres of one unit of the dim
DimUnit(dim) == IF EndsWith(dim, "km") THEN 1000 ELSE 1

\* k times a number of hundredths
WideTimes(x, k) ==
    Wide(x.neg, x.whole * k + ((x.cents * k) \div 100), (x.cents * k) % 100)

\* the length in metres of a dim whose number is a positive decimal
DimLength(dim) == WideTimes(parse_f64_wide(DimNumber(dim)).val, DimUnit(dim))

\* the pages with a dim and no scale
DimAlone(b) ==
    /\ "dim" \in DOMAIN b.got
    /\ "scale" \notin DOMAIN b.got
    /\ PositiveNumber(DimNumber(b.got["dim"]))

\* C24: when the params have a dim and no scale, the {scale} token is the
\* length of the dim in metres divided by 0.1, where 'n km' is n * 1000
\* metres and 'n m' or 'n' is n metres, and the mmscale, altitude, zoom and
\* span tokens are derived from that value.
C24_DimScale ==
    \A i \in DOMAIN outputs :
        DimAlone(outputs[i]) =>
            LET length == DimLength(outputs[i].got["dim"])
                scale == WideTimes(length, 10)
            IN  /\ Token(outputs[i], "scale") = wide_to_string(scale)
                /\ Token(outputs[i], "mmscale")
                       = I32ToString(get_mmscale(scale))
                /\ Token(outputs[i], "zoom")
                       = I32ToString(get_zoom(scale))

\* ---------------------------------------------------------------------
\* The zoom attribute
\* ---------------------------------------------------------------------

\* the pages with a numeric zoom and neither scale nor dim
ZoomAlone(b) ==
    /\ "zoom" \in DOMAIN b.got
    /\ "scale" \notin DOMAIN b.got
    /\ "dim" \notin DOMAIN b.got
    /\ parse_f64_wide(b.got["zoom"]).ok
    /\ parse_f64_wide(b.got["zoom"]).val.kind = "num"

\* C25: when the params have a numeric zoom z and neither scale nor dim,
\* the {scale} token and the quantities derived from the scale are those of
\* 2^(12 - z) * 100000, for every z, also where that value is not whole.
C25_ZoomScale ==
    \A i \in DOMAIN outputs :
        ZoomAlone(outputs[i]) =>
            LET scale == ZoomScale(parse_f64_wide(outputs[i].got["zoom"]).val)
            IN  /\ Token(outputs[i], "scale") = wide_to_string(scale)
                /\ Token(outputs[i], "osmzoom")
                       = I32ToString(get_osmzoom(scale))
                /\ Token(outputs[i], "altitude")
                       = I32ToString(get_altitude(scale))

\* ---------------------------------------------------------------------
\* build_output, called again
\* ---------------------------------------------------------------------

\* C26: two calls of build_output on the same MapSources, with the same
\* page name and title, return the same text.
C26_SameTextAgain ==
    \A i, j \in DOMAIN outputs :
        (/\ outputs[i].r_pagename = outputs[j].r_pagename
         /\ outputs[i].r_title = outputs[j].r_title)
            => outputs[i].ret = outputs[j].ret

\* ---------------------------------------------------------------------
\* The sign of the scale
\* ---------------------------------------------------------------------

\* C27: after scale_dim, scale_zoom and default_scale the attribute scale
\* is a number above zero, whatever the attributes of the params were, and
\* so is the {scale} token.
C27_ScaleAboveZero ==
    \A i \in DOMAIN outputs :
        /\ "scale" \in DOMAIN outputs[i].attr
        /\ PositiveNumber(outputs[i].attr["scale"])
        /\ PositiveNumber(Token(outputs[i], "scale"))

\* ---------------------------------------------------------------------
\* Pieces that are no numbers
\* ---------------------------------------------------------------------

\* the piece, or "0" where it does not read as a number
NumberOrZero(s) == IF parse_f64(s).ok THEN s ELSE "0"

\* the pieces with those at the places ps made numbers
ZeroedAt(p, ps) ==
    [i \in 1..Len(p) |-> IF i \in ps THEN NumberOrZero(p[i]) ELSE p[i]]

\* the two halves of 'lat;lon' made numbers
ZeroedPair(piece, i) ==
    NumberOrZero(Before(piece, i)) \o ";" \o NumberOrZero(After(piece, i))

\* how many pieces the coordinate at the head of p takes, 0 when p starts
\* with no recognised layout
CoordinateLength(p) ==
    IF p = <<>> THEN 0
    ELSE IF Find(p[1], ";") > 0 THEN 1
    ELSE IF Len(p) >= 4 /\ is_coor(p[2], p[4]) THEN 4
    ELSE IF Len(p) >= 6 /\ is_coor(p[3], p[6]) THEN 6
    ELSE IF Len(p) >= 8 /\ is_coor(p[4], p[8]) THEN 8
    ELSE 0

\* the coordinate at the head of p with a number at every numeric place
ZeroedCoordinate(p) ==
    CASE CoordinateLength(p) = 0 -> p
      [] CoordinateLength(p) = 1 ->
            <<ZeroedPair(p[1], Find(p[1], ";"))>> \o Tail(p)
      [] CoordinateLength(p) = 4 -> ZeroedAt(p, {1, 3})
      [] CoordinateLength(p) = 6 -> ZeroedAt(p, {1, 2, 4, 5})
      [] CoordinateLength(p) = 8 -> ZeroedAt(p, {1, 2, 3, 5, 6, 7})

\* the same for the coordinate after 'to', when there is one
ZeroedRange(p) ==
    LET n == CoordinateLength(p)
    IN  IF n > 0 /\ Len(p) > n /\ p[n + 1] = "to"
        THEN SubSeq(p, 1, n + 1) \o ZeroedCoordinate(Drop(p, n + 1))
        ELSE p

Zeroed(p) == ZeroedRange(ZeroedCoordinate(p))

\* C28: a piece in a numeric place of a recognised layout (degrees,
\* minutes, seconds, a half of 'lat;lon') that is no number counts as 0:
\* GeoParam::new returns what it returns for the params with "0" at that
\* place, and an error is one of 'No coordinates provided', 'Unrecognized
\* format', 'Out of range'. The state is the one new leaves, before the
\* attributes are taken out.
C28_NoNumberIsZero ==
    (pc \in {"parsed", "failed"} /\ calls = 0) =>
        /\ err \in {"", "No coordinates provided", "Unrecognized format",
                    "Out of range"}
        /\ err = GeoParam_new(Join(Zeroed(tokens), " ")).err
        /\ err = "" => geo = GeoParam_new(Join(Zeroed(tokens), " ")).geo

\* a parse that succeeded with a latitude piece that is no number
C28_Witness ==
    /\ pc = "parsed"
    /\ calls = 0
    /\ Len(tokens) >= 4
    /\ is_coor(tokens[2], tokens[4])
    /\ ~parse_f64(tokens[1]).ok
    /\ geo.latdeg.mag = 0
    /\ geo.londeg = F(7)

\* ---------------------------------------------------------------------
\* The template cache: concurrent Templates::load calls on one shared
\* Templates value. A call is a record of loads; pc is the await it stands
\* at, the other fields are its locals and what it did.
\* ---------------------------------------------------------------------

\* the calls of one run, and the ticks of its clock
MaxLoads == 2
MaxTicks == 2

\* const CACHE_DURATION: u64 = 60 * 60
CACHE_DURATION == 60 * 60

\* the clock advances by half the duration, so that an expiry is met exactly
HalfDuration == CACHE_DURATION \div 2

\* format!("{language}-{globe}-{use_sandbox}-{use_project:?}")
caching_key(language, globe, use_sandbox, use_project) ==
    language \o "-" \o globe \o "-" \o use_sandbox \o "-" \o use_project

CachingKeys ==
    {caching_key("en", "earth", "false", "None"),
     caching_key("de", "moon", "true", "None")}

\* the template page of the wiki of the language, and the one of
\* en.wikipedia.org
PrimaryBody == "<p>{latdegdec}</p>"
FallbackBody == "<p>{scale}</p>"

\* Result::Err of load
LoadErr == "Err"

\* a call that has not yet taken the read lock
Load(key) ==
    [pc |-> "read", key |-> key, html |-> "", ret |-> "", at |-> 0,
     hit |-> FALSE, expired |-> FALSE, served |-> 0, fetched |-> FALSE,
     stored |-> 0, wrote |-> 0]

InitTemplates ==
    /\ ParserIdle
    /\ RestIdle

\* a caller (main.rs, server.rs) calls load with its language and globe
Call ==
    /\ Len(loads) < MaxLoads
    /\ \E key \in CachingKeys : loads' = Append(loads, Load(key))
    /\ UNCHANGED <<templates, lock, now>>
    /\ UNCHANGED <<parser, made, dms, projector, page, group>>

\* self.templates.read().await: readers share the lock, a writer excludes
\* them. The queue of the lock, in which a reader also waits behind a writer
\* that waits, only delays a reader and is left out.
AcquireRead(i) ==
    /\ loads[i].pc = "read"
    /\ lock.writer = 0
    /\ lock' = [lock EXCEPT !.readers = @ \cup {i}]
    /\ loads' = [loads EXCEPT ![i].pc = "lookup"]
    /\ UNCHANGED <<templates, now>>
    /\ UNCHANGED <<parser, made, dms, projector, page, group>>

\* Some(template) with Some(expires) and expires > &Instant::now()
Fresh_NotStrict(key, instant) ==
    key \in DOMAIN templates /\ templates[key].expires >= instant

Fresh(key, instant) ==
    key \in DOMAIN templates /\ templates[key].expires > instant

\* the read guard is dropped at the end of the if statement
ReadReleased_Held(l, i) == l

ReadReleased(l, i) == [l EXCEPT !.readers = @ \ {i}]

\* return Ok(template.html.clone())
Hit(l) ==
    [l EXCEPT !.pc = "done", !.hit = TRUE, !.at = now,
              !.ret = templates[l.key].html,
              !.served = templates[l.key].expires]

\* no entry, or one that has expired: on to the fetch
Miss(l) ==
    [l EXCEPT !.pc = "primary", !.at = now,
              !.expired = l.key \in DOMAIN templates]

\* Self::get_reqwest_client()? could not build the client
NoClient(l) == [l EXCEPT !.pc = "done", !.ret = LoadErr]

\* the cache lookup of load, under the read lock, and after a miss the
\* client of the requests: there is no await between the two
Lookup(i) ==
    /\ loads[i].pc = "lookup"
    /\ IF Fresh(loads[i].key, now)
       THEN loads' = [loads EXCEPT ![i] = Hit(loads[i])]
       ELSE \/ loads' = [loads EXCEPT ![i] = Miss(loads[i])]
            \/ loads' = [loads EXCEPT ![i] = NoClient(Miss(loads[i]))]
    /\ lock' = ReadReleased(lock, i)
    /\ UNCHANGED <<templates, now>>
    /\ UNCHANGED <<parser, made, dms, projector, page, group>>

\* the request of the wiki of the language answers with a body
PrimaryOk(i) ==
    /\ loads[i].pc = "primary"
    /\ loads' = [loads EXCEPT ![i].pc = "write", ![i].html = PrimaryBody,
                              ![i].fetched = TRUE]
    /\ UNCHANGED <<templates, lock, now>>
    /\ UNCHANGED <<parser, made, dms, projector, page, group>>

\* send() or text() of the first request fails: the fallback is next
PrimaryFails(i) ==
    /\ loads[i].pc = "primary"
    /\ loads' = [loads EXCEPT ![i].pc = "fallback"]
    /\ UNCHANGED <<templates, lock, now>>
    /\ UNCHANGED <<parser, made, dms, projector, page, group>>

\* the request of en.wikipedia.org answers with a body
FallbackOk(i) ==
    /\ loads[i].pc = "fallback"
    /\ loads' = [loads EXCEPT ![i].pc = "write", ![i].html = FallbackBody,
                              ![i].fetched = TRUE]
    /\ UNCHANGED <<templates, lock, now>>
    /\ UNCHANGED <<parser, made, dms, projector, page, group>>

\* send()? or text()? of the fallback fails: load returns the error
FallbackFails(i) ==
    /\ loads[i].pc = "fallback"
    /\ loads' = [loads EXCEPT ![i].pc = "done", ![i].ret = LoadErr]
    /\ UNCHANGED <<templates, lock, now>>
    /\ UNCHANGED <<parser, made, dms, projector, page, group>>

\* self.templates.write().await in set_template
AcquireWrite(i) ==
    /\ loads[i].pc = "write"
    /\ lock.writer = 0
    /\ lock.readers = {}
    /\ lock' = [lock EXCEPT !.writer = i]
    /\ loads' = [loads EXCEPT ![i].pc = "insert"]
    /\ UNCHANGED <<templates, now>>
    /\ UNCHANGED <<parser, made, dms, projector, page, group>>

\* the number of inserts so far
Writes == Cardinality({j \in DOMAIN loads : loads[j].wrote > 0})

\* Template { html, expires: Some(Instant::now() + CACHE_DURATION) }
Template(html) == [html |-> html, expires |-> now + CACHE_DURATION]

\* insert(caching_key, Template {..}) under the write lock, the guard is
\* dropped, and load returns Ok(html)
SetTemplate(i) ==
    /\ loads[i].pc = "insert"
    /\ templates' = Insert(templates, loads[i].key, Template(loads[i].html))
    /\ lock' = [lock EXCEPT !.writer = 0]
    /\ loads' = [loads EXCEPT ![i].pc = "done", ![i].ret = loads[i].html,
                              ![i].stored = now, ![i].wrote = Writes + 1]
    /\ UNCHANGED now
    /\ UNCHANGED <<parser, made, dms, projector, page, group>>

\* time passes between two readings of Instant::now(), as long as a call
\* may still read it
Elapse ==
    /\ now < MaxTicks * HalfDuration
    /\ \E i \in 1..MaxLoads :
          IF i \in DOMAIN loads THEN loads[i].pc # "done" ELSE TRUE
    /\ now' = now + HalfDuration
    /\ UNCHANGED <<templates, lock, loads>>
    /\ UNCHANGED <<parser, made, dms, projector, page, group>>

\* one step of the call i
LoadStep(i) ==
    \/ AcquireRead(i)
    \/ Lookup(i)
    \/ PrimaryOk(i)
    \/ PrimaryFails(i)
    \/ FallbackOk(i)
    \/ FallbackFails(i)
    \/ AcquireWrite(i)
    \/ SetTemplate(i)

NextTemplates ==
    \/ Call
    \/ Elapse
    \/ \E i \in DOMAIN loads : AcquireRead(i)
    \/ \E i \in DOMAIN loads : Lookup(i)
    \/ \E i \in DOMAIN loads : PrimaryOk(i)
    \/ \E i \in DOMAIN loads : PrimaryFails(i)
    \/ \E i \in DOMAIN loads : FallbackOk(i)
    \/ \E i \in DOMAIN loads : FallbackFails(i)
    \/ \E i \in DOMAIN loads : AcquireWrite(i)
    \/ \E i \in DOMAIN loads : SetTemplate(i)

SpecTemplates == InitTemplates /\ [][NextTemplates]_vars

\* the runtime polls every task that can go on, and a request ends with a
\* response or, after the timeout of the client, with an error
SpecTemplatesFair ==
    SpecTemplates
    /\ \A i \in 1..MaxLoads : WF_vars(i \in DOMAIN loads /\ LoadStep(i))

\* ---------------------------------------------------------------------
\* What the cache serves
\* ---------------------------------------------------------------------

\* the calls that have returned
Returned_(i) == loads[i].pc = "done"

\* a body is returned without a fetch only from an entry of the key whose
\* expiry is later than the time of the lookup
ServedOnlyFresh ==
    \A i \in DOMAIN loads :
        (Returned_(i) /\ loads[i].ret # LoadErr /\ ~loads[i].fetched) =>
            /\ loads[i].hit
            /\ loads[i].served > loads[i].at

\* the call j wrote the entry of its key last
LastWrite(j) ==
    /\ loads[j].wrote > 0
    /\ \A k \in DOMAIN loads :
          loads[k].key = loads[j].key => loads[k].wrote <= loads[j].wrote

\* a fetch that succeeded is stored under the key of the call, and the
\* entry expires 3600 s after the insert
FetchStored ==
    \A i \in DOMAIN loads :
        /\ (Returned_(i) /\ loads[i].fetched) =>
                loads[i].wrote > 0 /\ loads[i].ret = loads[i].html
        /\ LastWrite(i) =>
                /\ loads[i].key \in DOMAIN templates
                /\ templates[loads[i].key].html = loads[i].html
                /\ templates[loads[i].key].expires = loads[i].stored + 3600

\* a body served from the cache was stored at most 3600 s before
ServedWithinTheHour ==
    \A i \in DOMAIN loads :
        loads[i].hit =>
            \E j \in DOMAIN loads :
                /\ loads[j].wrote > 0
                /\ loads[j].key = loads[i].key
                /\ loads[j].html = loads[i].ret
                /\ loads[j].stored <= loads[i].at
                /\ loads[i].at - loads[j].stored <= 3600

\* the entry of the key of call i was stored after the lookup of the call
StoredSince(i) ==
    /\ loads[i].key \in DOMAIN templates
    /\ templates[loads[i].key].expires >= loads[i].at + 3600

\* C29, as claimed: a body is served from the cache only while the expiry
\* of its entry is strictly later than now, a fetch that succeeds is stored
\* under the key with expiry now + 3600 s, no body is served more than
\* 3600 s after it was stored, and a call that finds an expired entry
\* always replaces it by a fresh fetch.
C29_ExpiredAlwaysReplaced ==
    /\ ServedOnlyFresh
    /\ FetchStored
    /\ ServedWithinTheHour
    /\ \A i \in DOMAIN loads :
          (Returned_(i) /\ loads[i].expired) => StoredSince(i)

\* C29, amended: the same, but the expired entry is replaced when the call
\* returns a body; a call whose requests both fail returns the error and
\* leaves the expired entry, which is not served.
C29_ExpiredReplacedOnSuccess ==
    /\ ServedOnlyFresh
    /\ FetchStored
    /\ ServedWithinTheHour
    /\ \A i \in DOMAIN loads :
          (Returned_(i) /\ loads[i].expired /\ loads[i].ret # LoadErr) =>
              StoredSince(i)
    /\ \A i \in DOMAIN loads :
          (Returned_(i) /\ loads[i].expired /\ loads[i].ret = LoadErr) =>
              ~loads[i].hit /\ loads[i].wrote = 0

\* a call found the entry of an earlier call expired, exactly 3600 s after
\* it was stored, and replaced it
C29_Witness ==
    \E i, j \in DOMAIN loads :
        /\ loads[j].wrote = 1
        /\ loads[i].expired
        /\ loads[i].at = loads[j].stored + 3600
        /\ loads[i].wrote = 2
        /\ Returned_(i)
        /\ templates[loads[i].key].html = loads[i].html

\* ---------------------------------------------------------------------
\* The lock of the cache
\* ---------------------------------------------------------------------

\* a call holds the lock only at the lookup and at the insert, never while
\* it waits for a response or for the write lock
NoLockAcrossFetch ==
    \A i \in DOMAIN loads :
        /\ i \in lock.readers => loads[i].pc = "lookup"
        /\ lock.writer = i => loads[i].pc = "insert"
        /\ lock.writer # 0 => lock.readers = {}

AllReturned == loads # <<>> /\ \A i \in DOMAIN loads : Returned_(i)

\* the entry of every key with a write is the one written last
LastWriteWins ==
    \A i \in DOMAIN loads :
        LastWrite(i) => /\ loads[i].key \in DOMAIN templates
                        /\ templates[loads[i].key].html = loads[i].html

\* a call that has not returned can take a step, or waits for the lock
\* that a call which can take a step holds
NoCallStuck ==
    \A i \in DOMAIN loads :
        ~Returned_(i) =>
            \/ ENABLED LoadStep(i)
            \/ \E j \in lock.readers \cup {lock.writer} :
                  j \in DOMAIN loads /\ ENABLED LoadStep(j)

\* C30, as claimed: concurrent calls of load do not deadlock, no lock is
\* held across a fetch, and when all calls have returned the cache holds
\* the entry of every key that was requested, the last write of the key.
C30_EveryKeyCached ==
    /\ NoCallStuck
    /\ NoLockAcrossFetch
    /\ AllReturned =>
          /\ LastWriteWins
          /\ \A i \in DOMAIN loads : loads[i].key \in DOMAIN templates

\* C30, amended: the same, but the cache holds the entry of every key for
\* which a call returned a body; a key whose calls all failed has no entry,
\* or the one it had.
C30_EveryServedKeyCached ==
    /\ NoCallStuck
    /\ NoLockAcrossFetch
    /\ AllReturned =>
          /\ LastWriteWins
          /\ \A i \in DOMAIN loads :
                loads[i].ret # LoadErr => loads[i].key \in DOMAIN templates
          /\ DOMAIN templates \subseteq {loads[i].key : i \in DOMAIN loads}

\* under the fair scheduling every call that was made returns
EveryLoadReturns ==
    \A i \in 1..MaxLoads : (i \in DOMAIN loads) ~> (i \in DOMAIN loads /\ Returned_(i))

\* two calls missed the same key at the same time, both fetched, and the
\* body of the second insert is the entry
C30_Witness ==
    /\ AllReturned
    /\ \E i, j \in DOMAIN loads :
          /\ loads[i].key = loads[j].key
          /\ loads[i].wrote = 1
          /\ loads[j].wrote = 2
          /\ loads[j].at <= loads[i].stored
          /\ loads[i].html # loads[j].html
          /\ templates[loads[j].key].html = loads[j].html

====
